---- MODULE Spec2Model ----
(***************************************************************************)
(* A model of the flexmock expectation engine (src/src/flexmock/_api.py):  *)
(* the registry FlexmockContainer, Expectation with its call-count         *)
(* modifiers and verification, the trampoline mock_method with its         *)
(* dispatch, the installation of trampolines on real targets and           *)
(* flexmock_teardown.                                                      *)
(*                                                                         *)
(* The host objects are a fixed small world:                               *)
(*     class Base:                                                         *)
(*         def m(self, x=None)            -> "m"                           *)
(*         @classmethod def cm(cls, x=None)  -> "cm"                       *)
(*         @staticmethod def sm(x=None)      -> "sm"                       *)
(*         @property def p(self)             -> "p"                        *)
(*         def r(self, a, b=None, c=None)    -> "r"                        *)
(*     class Child(Base): pass                                             *)
(*     class Locked(Base):                                                 *)
(*         def __delattr__(self, name): raise AttributeError               *)
(*     Inst = Base()                                                       *)
(*     Twin = Base()                                                       *)
(*     Kid = Child()                                                       *)
(*     Lock = Locked()                                                     *)
(*     Fake = flexmock()                                                   *)
(* Python's attribute lookup, descriptor binding and calling are modelled  *)
(* by GetAttr and Invoke.  Builder methods once/twice/never are always     *)
(* written with parentheses, so _called_deprecated_property is False at    *)
(* every verification and is not carried in the state.                     *)
(*                                                                         *)
(* The unittest integration (src/src/flexmock/_integrations.py) is the     *)
(* patched addSuccess and stopTest of a TestResult class patched once;     *)
(* unittest calls startTest, runs the body, calls addSuccess or addFailure *)
(* and then stopTest.                                                      *)
(***************************************************************************)
EXTENDS Integers, Sequences, FiniteSets, TLC

\* ------------------------------------------------------------------ bounds
MaxExp == 2       \* Expectations declared in one test
MaxMocks == 2     \* partial-mock proxies created in one test
MaxCalls == 2     \* calls the test makes to its Expectations in one behaviour
MaxTimes == 2     \* largest number handed to times()
MaxMods == 4      \* calls of times, at_least and at_most in one behaviour
MaxResults == 2   \* Results declared on one Expectation
MaxRotation == 3  \* calls counted in one behaviour that rotates Results
MaxLinks == 4     \* builder calls chained in one behaviour that rotates Results
MaxLife == 5      \* Expectation objects made in one behaviour of several tests
MaxSuccessive == 4  \* successive calls in one behaviour that returns values one by one
MaxTests == 2     \* tests unittest runs in one behaviour

\* ------------------------------------------------------- program constants
AT_LEAST == "at least"
AT_MOST == "at most"
EXACTLY == "exactly"
SPECIAL_METHODS == {"classmethod", "staticmethod"}
UPDATED_ATTRS == <<"should_receive", "should_call", "new_instances">>
DEFAULT_CLASS_ATTRIBUTES == {"__call__", "mro"}

None == "None"
NoExp == 0

\* ------------------------------------------------------------------- world
RealObjects == {"Base", "Child", "Inst"}
Instances == {"Inst", "Twin", "Kid"}
Objects == RealObjects \cup Instances \cup {"Fake", "Locked", "Lock"}
Members == {"m", "cm", "sm"}
Methods == Members \cup {"r"}
Properties == {"p"}
Values == {"a", "b"}

IsClass(o) == o \in {"Base", "Child", "Locked"}
IsMock(o) == o = "Fake"
ClassOf(o) ==
  CASE o \in {"Inst", "Twin"} -> "Base"
    [] o = "Kid" -> "Child"
    [] o = "Lock" -> "Locked"
    [] OTHER -> "MockClass"
Mro(c) ==
  CASE c = "Child" -> <<"Child", "Base">>
    [] c = "Locked" -> <<"Locked", "Base">>
    [] c = "Base" -> <<"Base">>
    [] OTHER -> << >>

MethodTypeAttr(n) ==
  CASE n = "m" -> "m__flexmock__method_type"
    [] n = "cm" -> "cm__flexmock__method_type"
    [] n = "sm" -> "sm__flexmock__method_type"
    [] n = "r" -> "r__flexmock__method_type"
    [] OTHER -> "None__flexmock__method_type"

\* _update_property: f"_flexmock__{name}"
FlexmockName(n) == "_flexmock__p"

Keys ==
  Methods \cup {UPDATED_ATTRS[i] : i \in 1..Len(UPDATED_ATTRS)}
          \cup {MethodTypeAttr(n) : n \in Methods}
          \cup Properties \cup {FlexmockName(n) : n \in Properties}

\* ------------------------------------------------------------------ values
Absent == [k |-> "absent"]
Func(n) == [k |-> "function", name |-> n]
ClassMethod(n) == [k |-> "classmethod", name |-> n]
StaticMethod(n) == [k |-> "staticmethod", name |-> n]
MockMethod(p, n) == [k |-> "mock_method", name |-> n, proxy |-> p]
Bound(f, o) == [k |-> "method", func |-> f, self |-> o]
ApiMethod(a, p) == [k |-> "api", name |-> a, proxy |-> p]
TypeObj(t) == [k |-> "type", name |-> t]
Property(n) == [k |-> "property", name |-> n]
UpdatedProperty(n) == [k |-> "updated", name |-> n]
Value(v) == [k |-> "value", v |-> v]

IsFunction(v) == v.k \in {"function", "mock_method"}
IsMethod(v) == v.k \in {"method", "api"}

\* The storage of the world before any mocking.
PristineDict ==
  [o \in Objects |->
     [k \in Keys |->
        IF o = "Base" /\ k = "m" THEN Func("m")
        ELSE IF o = "Base" /\ k = "cm" THEN ClassMethod("cm")
        ELSE IF o = "Base" /\ k = "sm" THEN StaticMethod("sm")
        ELSE IF o = "Base" /\ k = "p" THEN Property("p")
        ELSE IF o = "Base" /\ k = "r" THEN Func("r")
        ELSE Absent]]

\* What the real functions return.
OrigResult(n) == n

\* ------------------------------------------------- Python attribute lookup
\* name in obj.__dict__
InDict(d, o, k) == d[o][k] # Absent

RECURSIVE MroFindFrom(_, _, _, _)
MroFindFrom(d, mro, i, k) ==
  IF i > Len(mro) THEN Absent
  ELSE IF InDict(d, mro[i], k) THEN d[mro[i]][k]
  ELSE MroFindFrom(d, mro, i + 1, k)

\* The first entry for k in the storage of the classes of c's resolution order.
MroFind(d, c, k) == MroFindFrom(d, Mro(c), 1, k)

\* A property object: a data descriptor, found before the instance's storage.
IsProperty(v) == v.k \in {"property", "updated"}

\* What the getter of a property yields for instance inst of class c: the
\* original getter its value, the getter _update_property installs the
\* instance's own entry or else the original saved under the new name.
ReadProperty(d, raw, inst, c) ==
  IF raw.k = "property" THEN Value(raw.name)
  ELSE IF InDict(d, inst, raw.name) THEN d[inst][raw.name]
  ELSE LET saved == MroFind(d, c, FlexmockName(raw.name)) IN
       IF saved.k = "property" THEN Value(saved.name) ELSE saved

\* The descriptor protocol: what reading a class-level entry yields when it is
\* reached through the class c itself (inst = None) or through an instance.
BindDescriptor(raw, inst, c) ==
  CASE raw.k = "classmethod" -> Bound(Func(raw.name), c)
    [] raw.k = "staticmethod" -> Func(raw.name)
    [] IsFunction(raw) /\ inst # None -> Bound(raw, inst)
    [] OTHER -> raw

\* getattr(o, k); Absent stands for AttributeError.
GetAttr(d, o, k) ==
  IF IsClass(o) THEN BindDescriptor(MroFind(d, o, k), None, o)
  ELSE IF IsProperty(MroFind(d, ClassOf(o), k))
       THEN ReadProperty(d, MroFind(d, ClassOf(o), k), o, ClassOf(o))
  ELSE IF InDict(d, o, k) THEN d[o][k]
  ELSE BindDescriptor(MroFind(d, ClassOf(o), k), o, ClassOf(o))

HasAttr(d, o, k) == GetAttr(d, o, k) # Absent

\* inspect.getattr_static(o, k): no descriptor is bound.
GetAttrStatic(d, o, k) ==
  IF IsClass(o) THEN MroFind(d, o, k)
  ELSE IF InDict(d, o, k) THEN d[o][k]
  ELSE MroFind(d, ClassOf(o), k)

\* Mock._hasattr
_hasattr(d, o, k) ==
  IF ~IsClass(o) /\ ~InDict(d, o, k)
  THEN IF k \in DEFAULT_CLASS_ATTRIBUTES THEN FALSE
       ELSE MroFind(d, ClassOf(o), k) # Absent
  ELSE HasAttr(d, o, k)

\* _setattr: the storage after the write, and local_override.
_setattr(d, o, k, v) ==
  [dict |-> [d EXCEPT ![o][k] = v],
   local_override |-> IF IsClass(o) THEN ~InDict(d, o, k) \/ d[o][k] = Value(None)
                      ELSE ~InDict(d, o, k)]

\* ------------------------------------------------------------- signatures
NoArgSpec == [none |-> TRUE]
ArgSpec(names, ndefaults, variadic) ==
  [none |-> FALSE, args |-> names, defaults |-> ndefaults,
   varargs |-> variadic, varkw |-> variadic,
   kwonlyargs |-> << >>, kwonlydefaults |-> {}]

\* inspect.getfullargspec(original), NoArgSpec where it raises TypeError.
RECURSIVE GetFullArgSpec(_)
GetFullArgSpec(v) ==
  CASE v.k = "function" ->
         (CASE v.name = "m" -> ArgSpec(<<"self", "x">>, 1, FALSE)
            [] v.name = "cm" -> ArgSpec(<<"cls", "x">>, 1, FALSE)
            [] v.name = "r" -> ArgSpec(<<"self", "a", "b", "c">>, 2, FALSE)
            [] OTHER -> ArgSpec(<<"x">>, 1, FALSE))
    [] v.k = "mock_method" -> ArgSpec(<<"runtime_self">>, 0, TRUE)
    [] v.k = "method" -> GetFullArgSpec(v.func)
    [] OTHER -> NoArgSpec

\* ------------------------------------------------------------ Expectation
Modifiers == {EXACTLY, AT_LEAST, AT_MOST}
NoCount == -1
NoArgs == [none |-> TRUE]
Args(kargs, kwargs) == [none |-> FALSE, kargs |-> kargs, kwargs |-> kwargs]
ReturnValue(value, raises) == [value |-> value, raises |-> raises]

\* Expectation.__init__
NewExpectation(mock, name, original, method_type) ==
  [mock |-> mock,
   name |-> name,
   original |-> original,
   times_called |-> 0,
   modifier |-> EXACTLY,
   args |-> NoArgs,
   method_type |-> method_type,
   argspec |-> NoArgSpec,
   return_values |-> << >>,
   replace_with |-> Absent,
   original_function |-> Absent,
   expected_calls |-> [c \in Modifiers |-> NoCount],
   runnable |-> "true",
   pass_thru |-> FALSE,
   ordered |-> FALSE,
   one_by_one |-> FALSE,
   verified |-> FALSE,
   callable |-> TRUE,
   local_override |-> FALSE,
   modified |-> << >>,    \* history: the modifiers at_least and at_most set on it
   written |-> NoArgs,    \* history: the arguments of with_args as the test wrote them
   given |-> << >>,       \* history: the values of each and_return call made on it
   split |-> NoCount,     \* history: the Results it held when one_by_one was applied
   raised |-> 0,          \* history: the errors raised about this Expectation
   declared |-> << >>,    \* history: its Results in the order of declaration
   produced |-> 0,        \* history: the calls that took a Result from it
   refused |-> 0]         \* history: the calls its guard refused

\* ---------------------------------------------------------------- registry
\* The position of proxy p in FlexmockContainer.flexmock_objects, 0 if absent.
ObjIndex(objs, p) ==
  IF \E i \in 1..Len(objs) : objs[i].mock = p
  THEN CHOOSE i \in 1..Len(objs) : objs[i].mock = p
  ELSE 0

\* FlexmockContainer.add_expectation
add_expectation(objs, p, o, e) ==
  LET i == ObjIndex(objs, p) IN
  IF i # 0 THEN [objs EXCEPT ![i].exps = Append(@, e)]
  ELSE Append(objs, [mock |-> p, object |-> o, exps |-> <<e>>])

\* FlexmockContainer.get_expectations_with_name
get_expectations_with_name(S, p, name) ==
  LET i == ObjIndex(S.objs, p) IN
  IF i = 0 THEN << >>
  ELSE SelectSeq(S.objs[i].exps, LAMBDA e : S.exps[e].name = name)

\* ------------------------------------------------------------ method type
\* method.__self__ when it is a class, None otherwise.
BoundClass(v) == IF v.k = "method" /\ IsClass(v.self) THEN v.self ELSE None

RECURSIVE SavedTypeFrom(_, _, _, _)
SavedTypeFrom(d, mro, i, n) ==
  IF i > Len(mro) THEN None
  ELSE IF InDict(d, mro[i], MethodTypeAttr(n)) THEN d[mro[i]][MethodTypeAttr(n)].name
  ELSE SavedTypeFrom(d, mro, i + 1, n)

\* Mock._get_saved_method_type
_get_saved_method_type(d, n, method) ==
  IF BoundClass(method) # None THEN SavedTypeFrom(d, Mro(BoundClass(method)), 1, n)
  ELSE None

\* _is_class_method
_is_class_method(d, method, n) ==
  IF BoundClass(method) = None THEN FALSE
  ELSE MroFind(d, BoundClass(method), n).k = "classmethod"

\* _is_static_method
_is_static_method(d, o, n) == GetAttrStatic(d, o, n).k = "staticmethod"

\* type(method).__name__
TypeOf(v) == IF v.k = "mock_method" THEN "function" ELSE v.k

\* Mock._get_method_type: the type, and the storage with the type saved on the
\* target unless it was read from a saved one.
_get_method_type(d, o, n, method) ==
  LET saved == _get_saved_method_type(d, n, method)
      mt == IF _is_class_method(d, method, n) THEN "classmethod"
            ELSE IF _is_static_method(d, o, n) THEN "staticmethod"
            ELSE TypeOf(method)
  IN IF saved # None THEN [method_type |-> saved, dict |-> d]
     ELSE [method_type |-> mt,
           dict |-> [d EXCEPT ![o][MethodTypeAttr(n)] = TypeObj(mt)]]

\* ------------------------------------------------ installing a trampoline
\* Expectation._update_original with _update_argspec
_update_original(e, d, n, o) ==
  LET original == IF InDict(d, o, n) THEN d[o][n] ELSE GetAttr(d, o, n)
  IN [e EXCEPT !.original = original, !.argspec = GetFullArgSpec(original)]

\* Mock._update_method for proxy p of target o: the new Expectation and storage.
\* (_update_class_for_magic_builtins returns at once: no member is a dunder.)
_update_method(d, p, o, e0, n) ==
  LET capture == _hasattr(d, o, n) /\ e0.original = Absent
      e1 == IF capture THEN _update_original(e0, d, n, o) ELSE e0
      typed == IF capture THEN _get_method_type(d, o, n, e1.original)
               ELSE [method_type |-> e0.method_type, dict |-> d]
      e2 == IF capture
            THEN [e1 EXCEPT !.method_type = typed.method_type,
                            !.original_function =
                               IF typed.method_type \in SPECIAL_METHODS
                               THEN GetAttr(typed.dict, o, n) ELSE Absent]
            ELSE e1
      method_instance ==
        IF ~IsClass(o) \/ e2.method_type \in SPECIAL_METHODS
        THEN Bound(MockMethod(p, n), o) ELSE MockMethod(p, n)
      set == _setattr(typed.dict, o, n, method_instance)
  IN [exp |-> [e2 EXCEPT !.local_override = set.local_override],
      dict |-> set.dict]

\* Mock._get_or_create_expectation
_get_or_create_expectation(S, p, o, n) ==
  LET saved == get_expectations_with_name(S, p, n) IN
  IF saved # << >>
  THEN NewExpectation(o, n, S.exps[saved[1]].original, S.exps[saved[1]].method_type)
  ELSE NewExpectation(o, n, Absent, None)

\* _isproperty
_isproperty(d, o, n) ==
  IF IsMock(o) THEN FALSE
  ELSE IF ~IsClass(o) /\ ~InDict(d, o, n)
       THEN IsProperty(GetAttr(d, ClassOf(o), n))
       ELSE IsClass(o) /\ IsProperty(GetAttr(d, o, n))

\* FlexmockContainer.add_teardown_property
add_teardown_property(props, obj, name) ==
  IF \E i \in 1..Len(props) : props[i].object = obj
  THEN [i \in 1..Len(props) |->
          IF props[i].object = obj
          THEN [props[i] EXCEPT !.names = Append(@, name)] ELSE props[i]]
  ELSE Append(props, [object |-> obj, names |-> <<name>>])

\* Mock._create_placeholder_mock_for_proper_teardown: a new Mock, identified
\* by the Expectation registered for it.
_create_placeholder_mock_for_proper_teardown(S, obj, n, original) ==
  LET id == Len(S.exps) + 1 IN
  [S EXCEPT !.exps = Append(@, NewExpectation(obj, n, original, None)),
            !.objs = add_expectation(@, id, obj, id)]

\* Mock._update_property for the registered Expectation id of target o
_update_property(S, id, o, n) ==
  LET new_name == FlexmockName(n)
      obj == IF IsClass(o) THEN o ELSE ClassOf(o)
      original == GetAttr(S.dict, obj, n)
      S1 == [S EXCEPT !.exps[id].callable = FALSE,
                      !.dict[obj][n] = UpdatedProperty(n)]
  IN IF HasAttr(S1.dict, obj, new_name) THEN S1
     ELSE _create_placeholder_mock_for_proper_teardown(
            [S1 EXCEPT !.props = add_teardown_property(@, obj, new_name),
                       !.dict[obj][new_name] = original],
            obj, n, original)

\* Mock._update_attribute (return_value is None)
_update_attribute(S, id, o, n) ==
  LET e0 == S.exps[id]
      e1 == IF _hasattr(S.dict, o, n) /\ e0.original = Absent
            THEN _update_original(e0, S.dict, n, o) ELSE e0
      set == _setattr(S.dict, o, n, Value(None))
  IN [S EXCEPT !.exps[id] = [e1 EXCEPT !.callable = FALSE,
                                       !.local_override = set.local_override],
               !.dict = set.dict]

\* hasattr(v, "__call__")
IsCallable(v) == v.k \in {"function", "method", "mock_method", "api"}

\* Mock._create_expectation: register, then install by the kind of member.
_create_expectation(S, p, o, n) ==
  LET e0 == _get_or_create_expectation(S, p, o, n)
      id == Len(S.exps) + 1
      S1 == [S EXCEPT !.exps = Append(@, e0),
                      !.objs = add_expectation(@, p, o, id)]
      up == _update_method(S.dict, p, o, e0, n)
  IN IF _isproperty(S.dict, o, n) THEN _update_property(S1, id, o, n)
     ELSE IF IsMock(o) \/ IsCallable(GetAttr(S.dict, o, n))
          THEN [S1 EXCEPT !.exps[id] = up.exp, !.dict = up.dict]
          ELSE _update_attribute(S1, id, o, n)

\* Mock.should_receive on proxy p of target o for a member the target has.
should_receive(S, p, o, n) == _create_expectation(S, p, o, n)

\* Expectation.replace_with(function), where it does not raise.
replace_with(e, function) ==
  [e EXCEPT !.pass_thru = (function = e.original) \/ @,
            !.replace_with = function]

\* expectation.replace_with(expectation.__dict__.get("_original")) on the
\* Expectation should_receive has just made.
ReplaceWithOriginal(S1, id) ==
  [S1 EXCEPT !.exps[id] = replace_with(@, @.original)]

\* Mock.should_call for a callable member: should_receive, then
\* replace_with(the original).
should_call(S, p, o, n) ==
  ReplaceWithOriginal(should_receive(S, p, o, n), Len(S.exps) + 1)

\* ------------------------------------------------------------ partial mock
\* The proxy already registered for target o (compared by identity), 0 if none.
ProxyOf(objs, o) ==
  IF \E i \in 1..Len(objs) : objs[i].object = o
  THEN objs[CHOOSE i \in 1..Len(objs) :
              /\ objs[i].object = o
              /\ \A j \in 1..(i - 1) : objs[j].object # o].mock
  ELSE 0

RECURSIVE AttachFrom(_, _, _, _)
AttachFrom(d, o, p, i) ==
  IF i > Len(UPDATED_ATTRS) THEN d
  ELSE AttachFrom(_setattr(d, o, UPDATED_ATTRS[i], ApiMethod(UPDATED_ATTRS[i], p)).dict,
                  o, p, i + 1)

\* _attach_flexmock_methods (the target defines none of these names itself)
_attach_flexmock_methods(d, o, p) == AttachFrom(d, o, p, 1)

\* A variant that makes a new Mock at every request.
_create_partial_mock_anew(S, o, fresh) ==
  LET id == Len(S.exps) + 1
      S1 == [S EXCEPT !.exps = Append(@, NewExpectation(o, None, Absent, None)),
                      !.objs = add_expectation(@, fresh, o, id)]
  IN [S1 EXCEPT !.dict = _attach_flexmock_methods(@, o, fresh)]

\* _create_partial_mock(o) without keyword arguments; fresh is the identity of
\* the Mock made when no proxy is registered for o.
_create_partial_mock(S, o, fresh) ==
  LET found == ProxyOf(S.objs, o)
      p == IF found # 0 THEN found ELSE fresh
      id == Len(S.exps) + 1
      S1 == IF found # 0 THEN S
            ELSE [S EXCEPT !.exps = Append(@, NewExpectation(o, None, Absent, None)),
                           !.objs = add_expectation(@, p, o, id)]
  IN [S1 EXCEPT !.dict = _attach_flexmock_methods(@, o, p)]

\* ------------------------------------------------------ argument matching
KwKeys(kwargs) == {kv.key : kv \in kwargs}
KwGet(kwargs, key) == (CHOOSE kv \in kwargs : kv.key = key).val
KwSet(kwargs, key, val) ==
  {kv \in kwargs : kv.key # key} \cup {[key |-> key, val |-> val]}

SeqToSet(q) == {q[i] : i \in 1..Len(q)}

\* inspect.isclass(expected_arg): the one type the tests hand in is str.
IsTypeValue(v) == v = "str"

\* isinstance(v, str): the values the tests hand in and the results of the
\* real functions of the world.
IsStr(v) == v \in Values \cup {"ab", "m", "cm", "sm", "r"}

\* _arguments_match (no compiled pattern is handed in)
_arguments_match(arg, expected_arg) ==
  \/ expected_arg = arg
  \/ IsTypeValue(expected_arg) /\ IsStr(arg)

RECURSIVE NormalizeFrom(_, _, _, _)
NormalizeFrom(names, kargs, kwargs, i) ==
  IF i > Len(kargs) THEN Args(<< >>, kwargs)
  ELSE IF Len(names) < i THEN Args(kargs, kwargs)
  ELSE NormalizeFrom(names, kargs, KwSet(kwargs, names[i], kargs[i]), i + 1)

\* Expectation._normalize_named_args
_normalize_named_args(e, kargs, kwargs) ==
  IF e.argspec.none THEN Args(kargs, kwargs)
  ELSE NormalizeFrom(IF e.original.k = "method" THEN Tail(e.argspec.args)
                     ELSE e.argspec.args,
                     kargs, kwargs, 1)

\* Expectation._match_args
_match_args(e, given) ==
  LET g == _normalize_named_args(e, given.kargs, given.kwargs) IN
  \/ e.args.none
  \/ e.args = g
  \/ /\ Len(g.kargs) = Len(e.args.kargs)
     /\ KwKeys(g.kwargs) = KwKeys(e.args.kwargs)
     /\ \A i \in 1..Len(g.kargs) : _arguments_match(g.kargs[i], e.args.kargs[i])
     /\ \A key \in KwKeys(g.kwargs) :
          _arguments_match(KwGet(g.kwargs, key), KwGet(e.args.kwargs, key))

\* Expectation._verify_signature_match: TRUE where it raises MethodSignatureError.
_verify_signature_match(e, kargs, kwargs) ==
  LET allowed == e.argspec
      names == SeqToSet(allowed.args)
      is_method == e.original.k = "method" /\ e.method_type # "staticmethod"
      is_class_method == /\ IsFunction(e.original)
                         /\ IsClass(e.mock)
                         /\ e.method_type # "staticmethod"
      args_len == Len(allowed.args) - (IF is_method \/ is_class_method THEN 1 ELSE 0)
      total_positional == Len(kargs) + Cardinality(KwKeys(kwargs) \cap names)
      optional == {allowed.args[i] :
                     i \in (Len(allowed.args) - allowed.defaults + 1)..Len(allowed.args)}
      named_optionals == KwKeys(kwargs) \cap optional
      minimum0 == args_len - allowed.defaults
      minimum == IF allowed.defaults > 0 /\ total_positional = minimum0
                    /\ named_optionals # {}
                 THEN minimum0 + Cardinality(named_optionals) ELSE minimum0
      bounded == ~allowed.varargs /\ ~allowed.varkw
      required_kwonly == SeqToSet(allowed.kwonlyargs) \ allowed.kwonlydefaults
  IN IF IsMock(e.mock) THEN FALSE
     ELSE \/ total_positional < minimum
          \/ bounded /\ total_positional > args_len
          \/ args_len = Len(kargs) /\ KwKeys(kwargs) \cap names # {}
          \/ ~allowed.varkw
             /\ KwKeys(kwargs) \ (names \cup SeqToSet(allowed.kwonlyargs)) # {}
          \/ required_kwonly \ KwKeys(kwargs) # {}

\* ------------------------------------------------------------ verification
\* A variant that applies the check made during a call at teardown as well.
_verify_number_of_calls_lax(e, final) ==
  LET called_exactly == e.expected_calls[EXACTLY]
      called_at_most == e.expected_calls[AT_MOST]
  IN IF called_exactly # NoCount THEN e.times_called > called_exactly
     ELSE called_at_most # NoCount /\ e.times_called > called_at_most

\* A variant that forgets the lower bound when an upper bound is configured.
_verify_number_of_calls_upper(e, final) ==
  LET called_exactly == e.expected_calls[EXACTLY]
      called_at_least == e.expected_calls[AT_LEAST]
      called_at_most == e.expected_calls[AT_MOST]
  IN IF called_exactly # NoCount
     THEN IF final THEN e.times_called # called_exactly
          ELSE e.times_called > called_exactly
     ELSE IF called_at_most # NoCount THEN e.times_called > called_at_most
          ELSE final /\ called_at_least # NoCount /\ e.times_called < called_at_least

\* A variant that applies the bounds of at_least and at_most beside an exact
\* count.
_verify_number_of_calls_with_bounds(e, final) ==
  LET called_exactly == e.expected_calls[EXACTLY]
      called_at_least == e.expected_calls[AT_LEAST]
      called_at_most == e.expected_calls[AT_MOST]
  IN \/ /\ called_exactly # NoCount
        /\ IF final THEN e.times_called # called_exactly
           ELSE e.times_called > called_exactly
     \/ final /\ called_at_least # NoCount /\ e.times_called < called_at_least
     \/ called_at_most # NoCount /\ e.times_called > called_at_most

\* Expectation._verify_number_of_calls: failed.
_verify_number_of_calls(e, final) ==
  LET called_exactly == e.expected_calls[EXACTLY]
      called_at_least == e.expected_calls[AT_LEAST]
      called_at_most == e.expected_calls[AT_MOST]
  IN IF called_exactly # NoCount
     THEN IF final THEN e.times_called # called_exactly
          ELSE e.times_called > called_exactly
     ELSE \/ final /\ called_at_least # NoCount /\ e.times_called < called_at_least
          \/ called_at_most # NoCount /\ e.times_called > called_at_most

\* delattr(o, name) raises AttributeError: the class of o refuses it.
RefusesDelete(o) == ClassOf(o) = "Locked"

\* Expectation._reset raises: its delattr is refused.
_reset_raises(e, d) ==
  /\ ~IsMock(e.mock) /\ e.original # Absent /\ e.original # Value(None)
  /\ InDict(d, e.mock, e.name) /\ e.local_override
  /\ RefusesDelete(e.mock)

\* Expectation._reset: the storage with this Expectation's member put back.
_reset(e, d) ==
  IF IsMock(e.mock) \/ e.original = Absent \/ e.original = Value(None) THEN d
  ELSE IF InDict(d, e.mock, e.name) /\ e.local_override
       THEN [d EXCEPT ![e.mock][e.name] = Absent]
       ELSE [d EXCEPT ![e.mock][e.name] = e.original]

\* What an operation hands back: the state it leaves, and the value returned
\* or the error raised (exp: the Expectation a raised error is about).
Return(S, v) == [S |-> S, kind |-> "return", value |-> v, exp |-> NoExp]
Raise(S, err, e) == [S |-> S, kind |-> "raise", value |-> err, exp |-> e]

\* Expectation.__raise: reset this Expectation, then raise; an error of the
\* reset is raised in the place of err.
__raise(S, id, err) ==
  IF _reset_raises(S.exps[id], S.dict) THEN Raise(S, "AttributeError", id)
  ELSE Raise([S EXCEPT !.dict = _reset(S.exps[id], @)], err, id)

\* A variant that verifies at teardown only.
_verify_final_only(S, id, final) ==
  IF final /\ _verify_number_of_calls(S.exps[id], final) /\ ~S.exps[id].verified
  THEN __raise([S EXCEPT !.exps[id].verified = TRUE,
                         !.exps[id].raised = @ + 1],
               id, "MethodCallError")
  ELSE Return(S, None)

\* A variant that does not remember an earlier failure.
_verify_repeating(S, id, final) ==
  IF _verify_number_of_calls(S.exps[id], final)
  THEN __raise([S EXCEPT !.exps[id].verified = TRUE,
                         !.exps[id].raised = @ + 1],
               id, "MethodCallError")
  ELSE Return(S, None)

\* Expectation._verify
_verify(S, id, final) ==
  IF _verify_number_of_calls(S.exps[id], final) /\ ~S.exps[id].verified
  THEN __raise([S EXCEPT !.exps[id].verified = TRUE,
                         !.exps[id].raised = @ + 1],
               id, "MethodCallError")
  ELSE Return(S, None)

\* ----------------------------------------------------------------- lookup
InQueue(S, id) == \E i \in 1..Len(S.ordered) : S.ordered[i] = id

RECURSIVE FindFrom(_, _, _, _, _, _)
\* A variant in which a later match of the loop replaces an earlier one.
RECURSIVE FindFromOldest(_, _, _, _, _, _)
FindFromOldest(S, list, i, name, args, found) ==
  IF i = 0 THEN found
  ELSE LET id == list[i]
           e == S.exps[id]
           take == /\ e.name = name
                   /\ _match_args(e, args)
                   /\ (InQueue(S, id) \/ ~e.ordered)
       IN FindFromOldest(S, list, i - 1, name, args, IF take THEN id ELSE found)

\* A variant in which the first match of the loop is kept, whether it is
\* ordered or not.
RECURSIVE FindFromFirst(_, _, _, _, _, _)
FindFromFirst(S, list, i, name, args, found) ==
  IF i = 0 THEN found
  ELSE LET id == list[i]
           e == S.exps[id]
           take == /\ e.name = name
                   /\ _match_args(e, args)
                   /\ found = NoExp
                   /\ (InQueue(S, id) \/ ~e.ordered)
       IN FindFromFirst(S, list, i - 1, name, args, IF take THEN id ELSE found)

\* A variant in which an Expectation without argument constraint is kept
\* only until one with a constraint matches.
RECURSIVE FindFromSpecific(_, _, _, _, _, _)
FindFromSpecific(S, list, i, name, args, found) ==
  IF i = 0 THEN found
  ELSE LET id == list[i]
           e == S.exps[id]
           fallback == IF found = NoExp THEN TRUE
                       ELSE S.exps[found].args.none /\ ~e.args.none
           take == /\ e.name = name
                   /\ _match_args(e, args)
                   /\ (InQueue(S, id) \/ (~e.ordered /\ fallback))
       IN FindFromSpecific(S, list, i - 1, name, args, IF take THEN id ELSE found)

\* A variant that takes an ordered Expectation whether or not it is still in
\* the queue.
RECURSIVE FindFromDequeued(_, _, _, _, _, _)
FindFromDequeued(S, list, i, name, args, found) ==
  IF i = 0 THEN found
  ELSE LET id == list[i]
           e == S.exps[id]
           take == /\ e.name = name
                   /\ _match_args(e, args)
                   /\ (e.ordered \/ found = NoExp)
       IN FindFromDequeued(S, list, i - 1, name, args, IF take THEN id ELSE found)

\* The loop of get_flexmock_expectation, at position i with found so far.
FindFrom(S, list, i, name, args, found) ==
  IF i = 0 THEN found
  ELSE LET id == list[i]
           e == S.exps[id]
           take == /\ e.name = name
                   /\ _match_args(e, args)
                   /\ (InQueue(S, id) \/ (~e.ordered /\ found = NoExp))
       IN FindFrom(S, list, i - 1, name, args, IF take THEN id ELSE found)

\* A variant that keeps one chain for each target: the call is compared with
\* the first waiting Expectation of its own target, which is removed.
_verify_call_order_per_mock(S, id) ==
  LET own == SelectSeq(S.ordered, LAMBDA x : S.exps[x].mock = S.exps[id].mock)
      next_method == Head(own)
      S1 == [S EXCEPT !.ordered = SelectSeq(@, LAMBDA x : x # next_method),
                      !.last = next_method]
  IN IF id # next_method THEN Raise(S1, "CallOrderError", id)
     ELSE Return(S1, id)

\* A variant that dequeues only when the comparison passes.
_verify_call_order_keeping(S, id) ==
  LET next_method == Head(S.ordered) IN
  IF id # next_method THEN Raise(S, "CallOrderError", id)
  ELSE Return([S EXCEPT !.ordered = Tail(@), !.last = next_method], id)

\* A variant that dequeues without comparing.
_verify_call_order_unchecked(S, id) ==
  Return([S EXCEPT !.ordered = Tail(@), !.last = Head(S.ordered)], id)

\* FlexmockContainer._verify_call_order; cls.ordered.pop(0) raises IndexError
\* on an empty queue.
_verify_call_order(S, id) ==
  IF S.ordered = << >> THEN Raise(S, "IndexError", id)
  ELSE LET next_method == Head(S.ordered)
           S1 == [S EXCEPT !.ordered = Tail(@), !.last = next_method]
       IN IF id # next_method THEN Raise(S1, "CallOrderError", id)
          ELSE Return(S1, id)

\* A variant in which a call that finds nothing falls back to the most
\* recently declared matching ordered Expectation that has left the queue.
get_flexmock_expectation_repeating(S, p, name, args) ==
  LET list == S.objs[ObjIndex(S.objs, p)].exps
      found == FindFrom(S, list, Len(list), name, args, NoExp)
      drained == SelectSeq(list, LAMBDA x : /\ S.exps[x].name = name
                                            /\ _match_args(S.exps[x], args)
                                            /\ S.exps[x].ordered
                                            /\ ~InQueue(S, x))
  IN IF found # NoExp /\ S.exps[found].ordered
     THEN _verify_call_order(S, found)
     ELSE IF found = NoExp /\ drained # << >>
          THEN Return(S, drained[Len(drained)])
          ELSE Return(S, found)

\* A variant that checks the order for every Expectation found while the
\* queue holds one.
get_flexmock_expectation_checking_all(S, p, name, args) ==
  LET list == S.objs[ObjIndex(S.objs, p)].exps
      found == FindFrom(S, list, Len(list), name, args, NoExp)
  IN IF found # NoExp /\ S.ordered # << >>
     THEN _verify_call_order(S, found)
     ELSE Return(S, found)

\* FlexmockContainer.get_flexmock_expectation: returns the Expectation found
\* (NoExp for None) or raises CallOrderError.
get_flexmock_expectation(S, p, name, args) ==
  LET list == S.objs[ObjIndex(S.objs, p)].exps
      found == FindFrom(S, list, Len(list), name, args, NoExp)
  IN IF found # NoExp /\ S.exps[found].ordered
     THEN _verify_call_order(S, found)
     ELSE Return(S, found)

\* --------------------------------------------------------------- dispatch
\* A variant in which every guard answers True.
RunnableAlways(S, e) == TRUE

\* expectation._runnable(): the default guard (lambda: True), or the guard
\* when() installed, which reads a flag of the program under test.
Runnable(S, e) == e.runnable = "true" \/ (e.runnable = "flag" /\ S.flag)

\* Calling one of the real functions of the world with positional arguments.
CallReal(S, n, args) ==
  LET lo == IF n = "sm" THEN 0 ELSE IF n = "r" THEN 2 ELSE 1
      hi == IF n = "r" THEN 4 ELSE lo + 1
  IN
  IF Len(args) >= lo /\ Len(args) <= hi
  THEN Return([S EXCEPT !.real = Append(@, n)], OrigResult(n))
  ELSE Raise(S, "TypeError", NoExp)

\* match_return_values for single values
match_return_values(expected, received) == _arguments_match(received, expected)

\* raised.__bases__ and str(instance) for the exceptions raised in this world:
\* TypeError by a real function called with too many arguments, the errors
\* of flexmock by a trampoline.
Bases(c) ==
  CASE c \in {"TypeError", "AttributeError", "Boom", "FlexmockError"} -> {"Exception"}
    [] c = "Exception" -> {"BaseException"}
    [] OTHER -> {"FlexmockError"}
MessageOf(c) == IF c = "TypeError" THEN "takes" ELSE "text"

\* A variant that lets every caught exception through.
_handle_exception_matching_reraising(e, r) == r

\* _handle_exception_matching: r is the raise caught by pass_thru.
\* The Results are compared in the order class, then message; the value of a
\* Result of and_raise is the message its constructor argument gives, None
\* when and_raise was given the class alone.
_handle_exception_matching(e, r) ==
  IF e.return_values = << >> THEN r
  ELSE LET expected == e.return_values[1].raises
           expected_message == e.return_values[1].value
       IN IF expected = None THEN r
          ELSE IF expected # r.value /\ expected \notin Bases(r.value)
               THEN Raise(r.S, "ExceptionClassError", NoExp)
          ELSE IF expected_message # None /\ expected_message # MessageOf(r.value)
               THEN Raise(r.S, "ExceptionMessageError", NoExp)
          ELSE Return(r.S, None)


RECURSIVE Invoke(_, _, _)
RECURSIVE mock_method(_, _, _, _, _, _)
RECURSIVE _handle_matched_expectation(_, _, _, _)
RECURSIVE pass_thru(_, _, _, _)

\* callee(*args) for a value of the world.
Invoke(S, callee, args) ==
  CASE callee.k = "method" -> Invoke(S, callee.func, <<callee.self>> \o args)
    [] callee.k = "function" -> CallReal(S, callee.name, args)
    [] callee.k = "mock_method" /\ args # << >> ->
         mock_method(S, callee.proxy, callee.name, Head(args), Tail(args), {})
    [] OTHER -> Raise(S, "TypeError", NoExp)

\* pass_thru: the spy calls the original.
pass_thru(S, id, runtime_self, kargs) ==
  LET e == S.exps[id]
      r == IF IsClass(e.mock)
           THEN IF e.method_type \in SPECIAL_METHODS
                THEN Invoke(S, e.original_function, kargs)
                ELSE Invoke(S, e.original, <<runtime_self>> \o kargs)
           ELSE Invoke(S, e.original, kargs)
      expected_values == r.S.exps[id].return_values
  IN IF r.kind = "raise" THEN _handle_exception_matching(r.S.exps[id], r)
     ELSE IF /\ expected_values # << >>
             /\ ~match_return_values(expected_values[1].value, r.value)
          THEN Raise(r.S, "MethodSignatureError", NoExp)
          ELSE r

\* A variant that uses the front Result without moving it to the back.
_handle_matched_expectation_front(S, id, runtime_self, kargs) ==
  IF ~Runnable(S, S.exps[id])
  THEN Raise([S EXCEPT !.exps[id].refused = @ + 1], "StateError", id)
  ELSE
    LET S1 == [S EXCEPT !.exps[id].times_called = @ + 1]
        v == _verify(S1, id, FALSE)
        e == v.S.exps[id]
    IN IF v.kind = "raise" THEN v
       ELSE IF e.pass_thru THEN pass_thru(v.S, id, runtime_self, kargs)
       ELSE IF e.replace_with # Absent THEN Invoke(v.S, e.replace_with, kargs)
       ELSE IF e.return_values = << >> THEN Return(v.S, None)
       ELSE LET S2 == [v.S EXCEPT !.exps[id].produced = @ + 1]
                rv == Head(e.return_values)
            IN IF rv.raises # None THEN Raise(S2, rv.raises, NoExp)
               ELSE Return(S2, rv.value)

\* A variant that does not count a call whose Result is an exception.
_handle_matched_expectation_returns_only(S, id, runtime_self, kargs) ==
  IF ~Runnable(S, S.exps[id])
  THEN Raise([S EXCEPT !.exps[id].refused = @ + 1], "StateError", id)
  ELSE
    LET S1 == [S EXCEPT !.exps[id].times_called = @ + 1]
        v == _verify(S1, id, FALSE)
        e == v.S.exps[id]
        rotated == Tail(e.return_values) \o <<Head(e.return_values)>>
    IN IF v.kind = "raise" THEN v
       ELSE IF e.pass_thru THEN pass_thru(v.S, id, runtime_self, kargs)
       ELSE IF e.replace_with # Absent THEN Invoke(v.S, e.replace_with, kargs)
       ELSE IF e.return_values = << >> THEN Return(v.S, None)
       ELSE LET S2 == [v.S EXCEPT !.exps[id].return_values = rotated,
                                  !.exps[id].produced = @ + 1]
                rv == Head(e.return_values)
            IN IF rv.raises # None
               THEN Raise([S2 EXCEPT !.exps[id].times_called = @ - 1],
                          rv.raises, NoExp)
               ELSE Return(S2, rv.value)

\* _handle_matched_expectation
_handle_matched_expectation(S, id, runtime_self, kargs) ==
  IF ~Runnable(S, S.exps[id])
  THEN Raise([S EXCEPT !.exps[id].refused = @ + 1], "StateError", id)
  ELSE
    LET S1 == [S EXCEPT !.exps[id].times_called = @ + 1]
        v == _verify(S1, id, FALSE)
        e == v.S.exps[id]
        rotated == Tail(e.return_values) \o <<Head(e.return_values)>>
    IN IF v.kind = "raise" THEN v
       ELSE IF e.pass_thru THEN pass_thru(v.S, id, runtime_self, kargs)
       ELSE IF e.replace_with # Absent THEN Invoke(v.S, e.replace_with, kargs)
       ELSE IF e.return_values = << >> THEN Return(v.S, None)
       ELSE LET S2 == [v.S EXCEPT !.exps[id].return_values = rotated,
                                  !.exps[id].produced = @ + 1]
                rv == Head(e.return_values)
            IN IF rv.raises # None THEN Raise(S2, rv.raises, NoExp)
               ELSE Return(S2, rv.value)

\* A variant that asks the guard of the Expectation the loop finds before
\* the order check is made.
mock_method_guard_first(S, p, name, runtime_self, kargs, kwargs) ==
  IF ObjIndex(S.objs, p) = 0 THEN Raise(S, "KeyError", NoExp)
  ELSE
    LET list == S.objs[ObjIndex(S.objs, p)].exps
        found == FindFrom(S, list, Len(list), name, Args(kargs, kwargs), NoExp)
        g == get_flexmock_expectation(S, p, name, Args(kargs, kwargs))
    IN IF found # NoExp /\ ~Runnable(S, S.exps[found])
       THEN _handle_matched_expectation(
              [S EXCEPT !.hits = Append(@, found)], found, runtime_self, kargs)
       ELSE IF g.kind = "raise" THEN g
       ELSE IF g.value # NoExp
            THEN _handle_matched_expectation(
                   [g.S EXCEPT !.hits = Append(@, g.value)], g.value, runtime_self, kargs)
            ELSE Raise(g.S, "MethodSignatureError", NoExp)

\* mock_method: the trampoline installed for proxy p and member name.
mock_method(S, p, name, runtime_self, kargs, kwargs) ==
  IF ObjIndex(S.objs, p) = 0 THEN Raise(S, "KeyError", NoExp)
  ELSE
    LET g == get_flexmock_expectation(S, p, name, Args(kargs, kwargs)) IN
    IF g.kind = "raise" THEN g
    ELSE IF g.value # NoExp
         THEN _handle_matched_expectation(
                [g.S EXCEPT !.hits = Append(@, g.value)], g.value, runtime_self, kargs)
         ELSE Raise(g.S, "MethodSignatureError", NoExp)

\* callee(*args, **kwargs): a real function of the world binds the values to
\* its parameters and raises TypeError where Python does; a trampoline hands
\* the keywords on as they are.
InvokeNamed(S, callee, args, kwargs) ==
  LET f == IF callee.k = "method" THEN callee.func ELSE callee
      a == IF callee.k = "method" THEN <<callee.self>> \o args ELSE args
      names == GetFullArgSpec(f).args
      filled == {names[i] : i \in 1..(IF Len(a) < Len(names) THEN Len(a) ELSE Len(names))}
      required == {names[i] : i \in 1..(Len(names) - GetFullArgSpec(f).defaults)}
  IN CASE f.k = "function" ->
            IF /\ Len(a) <= Len(names)
               /\ KwKeys(kwargs) \subseteq SeqToSet(names)
               /\ KwKeys(kwargs) \cap filled = {}
               /\ required \subseteq filled \cup KwKeys(kwargs)
            THEN Return([S EXCEPT !.real = Append(@, f.name)], OrigResult(f.name))
            ELSE Raise(S, "TypeError", NoExp)
       [] f.k = "mock_method" /\ a # << >> ->
            mock_method(S, f.proxy, f.name, Head(a), Tail(a), kwargs)
       [] OTHER -> Raise(S, "TypeError", NoExp)

\* --------------------------------------------------------------- teardown
\* The loop  for expectation in expectations: expectation._reset()  : the
\* storage it leaves, and whether a _reset raised and ended it.
RECURSIVE ResetAll(_, _, _, _)
ResetAll(exps, list, i, d) ==
  IF i > Len(list) THEN [dict |-> d, raised |-> FALSE]
  ELSE IF _reset_raises(exps[list[i]], d) THEN [dict |-> d, raised |-> TRUE]
  ELSE ResetAll(exps, list, i + 1, _reset(exps[list[i]], d))

\* delattr(obj, name__flexmock__method_type) for every Expectation of the list;
\* AttributeError is passed over.
RECURSIVE DropMethodTypes(_, _, _, _, _)
DropMethodTypes(exps, list, i, o, d) ==
  IF i > Len(list) THEN d
  ELSE DropMethodTypes(exps, list, i + 1, o,
                       IF exps[list[i]].name \in Methods
                       THEN [d EXCEPT ![o][MethodTypeAttr(exps[list[i]].name)] = Absent]
                       ELSE d)

\* The first loop of flexmock_teardown over flexmock_objects.items(); r is
\* what the resets of the Expectations of proxy i left.
RECURSIVE RestoreFrom(_, _, _, _)
RestoreNext(exps, objs, i, r) ==
  IF r.raised THEN r
  ELSE RestoreFrom(exps, objs, i + 1,
         DropMethodTypes(exps, objs[i].exps, 1, objs[i].object, r.dict))

RestoreFrom(exps, objs, i, d) ==
  IF i > Len(objs) THEN [dict |-> d, raised |-> FALSE]
  ELSE RestoreNext(exps, objs, i, ResetAll(exps, objs[i].exps, 1, d))

\* The loop over instances + classes: every UPDATED_ATTRS entry of the target's
\* own storage that the library attached is deleted.
RECURSIVE DetachFrom(_, _, _)
DetachFrom(objs, i, d) ==
  IF i > Len(objs) THEN d
  ELSE LET o == objs[i].object IN
       DetachFrom(objs, i + 1,
         IF IsMock(o) THEN d
         ELSE [d EXCEPT ![o] =
                 [k \in Keys |->
                    IF d[o][k].k = "api" /\ k \in SeqToSet(UPDATED_ATTRS)
                    THEN Absent ELSE d[o][k]]])

RECURSIVE Flatten(_, _)
Flatten(objs, i) ==
  IF i > Len(objs) THEN << >> ELSE objs[i].exps \o Flatten(objs, i + 1)

RECURSIVE VerifyFrom(_, _, _)
\* A variant that leaves the ordering queue and the property table alone.
reset_expectations_only(S) == [S EXCEPT !.objs = << >>]

\* A variant of the teardown loop that verifies the most recently declared
\* Expectation first.
RECURSIVE VerifyFromLast(_, _, _)
VerifyFromLast(S, list, i) ==
  IF i > Len(list) THEN Return(S, None)
  ELSE LET r == _verify(S, list[Len(list) + 1 - i], TRUE) IN
       IF r.kind = "raise" THEN r ELSE VerifyFromLast(r.S, list, i + 1)

\* The last loop of flexmock_teardown: the first failing _verify raises.
VerifyFrom(S, list, i) ==
  IF i > Len(list) THEN Return(S, None)
  ELSE LET r == _verify(S, list[i], TRUE) IN
       IF r.kind = "raise" THEN r ELSE VerifyFrom(r.S, list, i + 1)

\* FlexmockContainer.reset
reset(S) ==
  [S EXCEPT !.ordered = << >>, !.last = NoExp, !.objs = << >>, !.props = << >>]

\* The (object, name) pairs FlexmockContainer.properties holds, in its order.
RECURSIVE PropertyPairs(_, _)
PropertyPairs(props, i) ==
  IF i > Len(props) THEN << >>
  ELSE [j \in 1..Len(props[i].names) |->
          [object |-> props[i].object, name |-> props[i].names[j]]]
       \o PropertyPairs(props, i + 1)

\* FlexmockContainer.teardown_properties: delattr of every pair; the first
\* name the object does not hold raises AttributeError.
RECURSIVE teardown_properties(_, _, _)
teardown_properties(S, pairs, i) ==
  IF i > Len(pairs) THEN Return(S, None)
  ELSE IF ~InDict(S.dict, pairs[i].object, pairs[i].name)
       THEN Raise(S, "AttributeError", NoExp)
       ELSE teardown_properties(
              [S EXCEPT !.dict[pairs[i].object][pairs[i].name] = Absent],
              pairs, i + 1)

\* flexmock_teardown after its first loop, which left the storage d1.
AfterRestore(S, d1) ==
  LET saved == S.objs
      d2 == DetachFrom(saved, 1, d1)
      t == teardown_properties([S EXCEPT !.dict = d2], PropertyPairs(S.props, 1), 1)
  IN IF t.kind = "raise" THEN t
     ELSE VerifyFrom(reset(t.S), Flatten(saved, 1), 1)

\* flexmock_teardown with its first loop done: r is what the loop left.
Restored(S, r) ==
  IF r.raised THEN Raise([S EXCEPT !.dict = r.dict], "AttributeError", NoExp)
  ELSE AfterRestore(S, r.dict)

\* flexmock_teardown
flexmock_teardown(S) == Restored(S, RestoreFrom(S.exps, S.objs, 1, S.dict))

\* ---------------------------------------------------------------- builders
\* Expectation._update_argspec: a TypeError of getfullargspec leaves it alone.
_update_argspec(e) ==
  IF e.original # Absent /\ ~GetFullArgSpec(e.original).none
  THEN [e EXCEPT !.argspec = GetFullArgSpec(e.original)] ELSE e

\* Expectation.with_args
with_args(S, id, kargs, kwargs) ==
  IF ~S.exps[id].callable THEN __raise(S, id, "FlexmockError")
  ELSE LET e == _update_argspec(S.exps[id])
           S1 == [S EXCEPT !.exps[id] = e]
           S2 == [S1 EXCEPT !.exps[id].written = Args(kargs, kwargs)]
       IN IF e.argspec.none
          THEN Return([S2 EXCEPT !.exps[id].args = Args(kargs, kwargs)], id)
          ELSE IF _verify_signature_match(e, kargs, kwargs)
               THEN Raise(S1, "MethodSignatureError", id)
               ELSE Return([S2 EXCEPT !.exps[id].args =
                                        _normalize_named_args(e, kargs, kwargs)], id)

\* Expectation.times (once, twice and never are times(1), times(2), times(0))
times(S, id, number) ==
  IF ~S.exps[id].callable THEN __raise(S, id, "FlexmockError")
  ELSE Return([S EXCEPT !.exps[id].expected_calls[S.exps[id].modifier] = number], id)

\* at_least without its check that the modifier is used once
at_least_again(S, id) ==
  LET e == S.exps[id] IN
  IF ~e.callable THEN __raise(S, id, "FlexmockError")
  ELSE IF e.modifier = AT_MOST /\ e.expected_calls[AT_MOST] = NoCount
       THEN __raise(S, id, "FlexmockError")
  ELSE Return([S EXCEPT !.exps[id].modifier = AT_LEAST,
                        !.exps[id].modified = Append(@, AT_LEAST)], id)

\* Expectation.at_least
at_least(S, id) ==
  LET e == S.exps[id] IN
  IF ~e.callable THEN __raise(S, id, "FlexmockError")
  ELSE IF e.expected_calls[AT_LEAST] # NoCount \/ e.modifier = AT_LEAST
       THEN __raise(S, id, "FlexmockError")
  ELSE IF e.modifier = AT_MOST /\ e.expected_calls[AT_MOST] = NoCount
       THEN __raise(S, id, "FlexmockError")
  ELSE Return([S EXCEPT !.exps[id].modifier = AT_LEAST,
                        !.exps[id].modified = Append(@, AT_LEAST)], id)

\* Expectation.at_most
at_most(S, id) ==
  LET e == S.exps[id] IN
  IF ~e.callable THEN __raise(S, id, "FlexmockError")
  ELSE IF e.expected_calls[AT_MOST] # NoCount \/ e.modifier = AT_MOST
       THEN __raise(S, id, "FlexmockError")
  ELSE IF e.modifier = AT_LEAST /\ e.expected_calls[AT_LEAST] = NoCount
       THEN __raise(S, id, "FlexmockError")
  ELSE Return([S EXCEPT !.exps[id].modifier = AT_MOST,
                        !.exps[id].modified = Append(@, AT_MOST)], id)

\* The tuple objects the tests build from the values, by their repr.
TupleOf(values) ==
  CASE values = <<"a", "b">> -> "('a', 'b')"
    [] values = <<"b", "a">> -> "('b', 'a')"
    [] values = <<"ab", "a">> -> "('ab', 'a')"

\* iter(v): a tuple yields its items, a string its characters, and None,
\* like every value that cannot be iterated, raises TypeError.
CanIterate(v) == v # None
Items(v) ==
  CASE v = "('a', 'b')" -> <<"a", "b">>
    [] v = "('b', 'a')" -> <<"b", "a">>
    [] v = "('ab', 'a')" -> <<"ab", "a">>
    [] v = "ab" -> <<"a", "b">>
    [] v = "iter(('a',))" -> <<"a">>
    [] OTHER -> <<v>>

\* [ReturnValue(v) for v in value]
ReturnValues(q) == [i \in 1..Len(q) |-> ReturnValue(q[i], None)]

\* The loop body of one_by_one for one saved Result: the items of its value,
\* each as a Result, or the Result itself when the value cannot be iterated.
\* The value of a Result of and_raise is the dict of the constructor
\* arguments, whose items are its two keys.
Spread(rv) ==
  IF rv.raises # None THEN ReturnValues(<<"kargs", "kwargs">>)
  ELSE IF CanIterate(rv.value) THEN ReturnValues(Items(rv.value))
  ELSE <<rv>>

RECURSIVE SpreadAll(_, _)
SpreadAll(saved_values, i) ==
  IF i > Len(saved_values) THEN << >>
  ELSE Spread(saved_values[i]) \o SpreadAll(saved_values, i + 1)

\* A variant that sets the mark and leaves the Results as they are.
one_by_one_mark_only(S, id) ==
  IF ~S.exps[id].callable THEN __raise(S, id, "FlexmockError")
  ELSE Return([S EXCEPT !.exps[id].one_by_one = TRUE,
                        !.exps[id].split = IF S.exps[id].one_by_one THEN @
                                           ELSE Len(S.exps[id].return_values)], id)

\* Expectation.one_by_one
one_by_one(S, id) ==
  LET e == S.exps[id] IN
  IF ~e.callable THEN __raise(S, id, "FlexmockError")
  ELSE IF e.one_by_one THEN Return(S, id)
  ELSE Return([S EXCEPT !.exps[id].one_by_one = TRUE,
                        !.exps[id].return_values = SpreadAll(@, 1),
                        !.exps[id].declared = SpreadAll(@, 1),
                        !.exps[id].split = Len(e.return_values)], id)

\* Expectation.and_return(*values)
and_return(S, id, values) ==
  LET e == S.exps[id]
      value == IF values = << >> THEN None
               ELSE IF Len(values) = 1 THEN values[1]
               ELSE TupleOf(values)
      new == IF e.one_by_one /\ CanIterate(value) THEN ReturnValues(Items(value))
             ELSE <<ReturnValue(value, None)>>
  IN IF ~e.callable
     THEN Return([S EXCEPT !.dict = _setattr(@, e.mock, e.name, Value(value)).dict], id)
     ELSE Return([S EXCEPT !.exps[id].return_values = @ \o new,
                           !.exps[id].declared = @ \o new,
                           !.exps[id].given = Append(@, values)], id)

\* Expectation.and_raise(exception, message) for an exception class; message
\* is None for and_raise(exception).
and_raise(S, id, exception, message) ==
  IF ~S.exps[id].callable THEN __raise(S, id, "FlexmockError")
  ELSE Return([S EXCEPT !.exps[id].return_values = Append(@, ReturnValue(message, exception)),
                        !.exps[id].declared = Append(@, ReturnValue(message, exception))], id)

\* iter(args), by its repr
IterOf(args) == CASE args = <<"a">> -> "iter(('a',))"

\* Expectation.and_yield(*args)
and_yield(S, id, args) ==
  IF ~S.exps[id].callable THEN __raise(S, id, "FlexmockError")
  ELSE and_return(S, id, <<IterOf(args)>>)

\* Expectation.replace_with(function) as the test calls it
replace_with_(S, id, function) ==
  LET e == S.exps[id] IN
  IF ~e.callable THEN __raise(S, id, "FlexmockError")
  ELSE IF e.replace_with # Absent THEN __raise(S, id, "FlexmockError")
  ELSE Return([S EXCEPT !.exps[id] = replace_with(e, function)], id)

\* Expectation.when(func) for a callable func
when(S, id, func) ==
  IF ~S.exps[id].callable THEN __raise(S, id, "FlexmockError")
  ELSE Return([S EXCEPT !.exps[id].runnable = func], id)

\* ordered without its check for attribute stubs
ordered_unchecked(S, id) ==
  Return([S EXCEPT !.exps[id].ordered = TRUE, !.ordered = Append(@, id)], id)

\* Expectation.ordered
ordered_(S, id) ==
  IF ~S.exps[id].callable THEN __raise(S, id, "FlexmockError")
  ELSE Return([S EXCEPT !.exps[id].ordered = TRUE, !.ordered = Append(@, id)], id)

\* ------------------------------------------------------------------- state
VARIABLES
  dict,              \* the immediate storage (__dict__) of every object
  exps,              \* every Expectation object made so far, by identity
  flexmock_objects,  \* FlexmockContainer.flexmock_objects, in insertion order
  ordered,           \* FlexmockContainer.ordered
  last,              \* FlexmockContainer.last
  properties,        \* FlexmockContainer.properties, in insertion order
  flag,              \* the flag of the program under test that guards read
  nmods,             \* count-modifier calls the test has made
  test_result,       \* the unittest TestResult the integration is patched into
  result             \* what the last operation of the test returned or raised

vars ==
  <<dict, exps, flexmock_objects, ordered, last, properties, flag, nmods,
    test_result, result>>

\* The Mock that is the standalone fake itself.
FakeProxy == 0

State ==
  [dict |-> dict, exps |-> exps, objs |-> flexmock_objects,
   ordered |-> ordered, last |-> last, props |-> properties, flag |-> flag,
   hits |-> << >>, real |-> << >>]

\* The outcome of one operation of the test: r is what the operation handed
\* back, hits the Expectations its dispatch selected, real the functions of
\* the world it ran, saved the Expectations a teardown verified, in its order.
Outcome(op, o, n, a, r, saved) ==
  [op |-> op, target |-> o, name |-> n, args |-> a,
   kind |-> r.kind, value |-> r.value, exp |-> r.exp, hits |-> r.S.hits,
   real |-> r.S.real, saved |-> saved]

Commit(r) ==
  /\ dict' = r.S.dict
  /\ exps' = r.S.exps
  /\ flexmock_objects' = r.S.objs
  /\ ordered' = r.S.ordered
  /\ last' = r.S.last
  /\ properties' = r.S.props

Init ==
  /\ dict = PristineDict
  /\ exps = << >>
  /\ flexmock_objects = << >>
  /\ ordered = << >>
  /\ last = NoExp
  /\ properties = << >>
  /\ flag = TRUE
  /\ nmods = 0
  /\ test_result = [_pre_flexmock_success |-> FALSE, testsRun |-> 0, reported |-> << >>]
  /\ result = Outcome("init", None, None, << >>, Return(State, None), << >>)

Named == {id \in 1..Len(exps) : exps[id].name # None}
Registered ==
  {id \in Named : \E i \in 1..Len(flexmock_objects) :
                    id \in SeqToSet(flexmock_objects[i].exps)}
Proxies == {flexmock_objects[i].mock : i \in 1..Len(flexmock_objects)}
TargetOf(p) ==
  IF p = FakeProxy THEN "Fake" ELSE flexmock_objects[ObjIndex(flexmock_objects, p)].object

\* The Expectations the current test declared with should_receive or
\* should_call, and the proxies it made with flexmock(o).
Declared == {id \in Registered : id \notin Proxies}
Partial == {id \in Proxies : id # FakeProxy /\ exps[id].name = None}

RECURSIVE SumCalled(_, _)
SumCalled(q, i) == IF i > Len(q) THEN 0 ELSE q[i].times_called + SumCalled(q, i + 1)
\* The calls the test has made to its Expectations.
TotalCalled == SumCalled(exps, 1)

RECURSIVE SumRefused(_, _)
SumRefused(q, i) == IF i > Len(q) THEN 0 ELSE q[i].refused + SumRefused(q, i + 1)
\* The calls the guards of the Expectations have refused.
TotalRefused == SumRefused(exps, 1)

\* ----------------------------------------------------------------- actions
\* flexmock(o) for a real object that has no proxy yet.  The new Mock is
\* identified by the nameless Expectation _create_partial_mock registers for it.
Flexmock(o) ==
  /\ Cardinality(Partial) < MaxMocks
  /\ ProxyOf(flexmock_objects, o) = 0
  /\ LET S1 == _create_partial_mock(State, o, Len(exps) + 1) IN
     /\ Commit(Return(S1, None))
     /\ result' = Outcome("flexmock", o, None, << >>, Return(S1, None), << >>)
  /\ UNCHANGED <<nmods, flag, test_result>>

\* flexmock(o) for a real object, with or without a proxy.  The field exp of
\* the outcome is the identity of the Mock handed back: the one whose
\* should_receive the target carries after the call.
Request(o) ==
  /\ Len(exps) < MaxLife
  /\ LET S1 == _create_partial_mock(State, o, Len(exps) + 1)
         p == S1.dict[o]["should_receive"].proxy
     IN /\ Commit(Return(S1, None))
        /\ result' = Outcome("flexmock", o, None, << >>,
                             [Return(S1, None) EXCEPT !.exp = p], << >>)
  /\ UNCHANGED <<nmods, flag, test_result>>

\* proxy.should_receive(n)
ShouldReceive(p, n) ==
  /\ Cardinality(Declared) < MaxExp
  /\ p = FakeProxy \/ p \in Proxies
  /\ LET o == TargetOf(p)
         r == IF ~IsMock(o) /\ ~_hasattr(dict, o, n)
              THEN Raise(State, "FlexmockError", NoExp)
              ELSE Return(should_receive(State, p, o, n), Len(exps) + 1)
     IN /\ Commit(r)
        /\ result' = Outcome("build", o, n, << >>, r, << >>)
  /\ UNCHANGED <<nmods, flag, test_result>>

\* proxy.should_call(n) on the proxy of a real object
ShouldCall(p, n) ==
  /\ Cardinality(Declared) < MaxExp
  /\ p \in Proxies /\ p # FakeProxy
  /\ LET o == TargetOf(p)
         r == IF ~_hasattr(dict, o, n)
              THEN Raise(State, "FlexmockError", NoExp)
              ELSE Return(should_call(State, p, o, n), Len(exps) + 1)
     IN /\ Commit(r)
        /\ result' = Outcome("build", o, n, << >>, r, << >>)
  /\ UNCHANGED <<nmods, flag, test_result>>

\* The builder method called b of Expectation id has handed back r.
Builder(id, b, r) ==
  /\ Commit(r)
  /\ result' = Outcome("build", exps[id].mock, exps[id].name, <<b>>, r, << >>)

WithArgs(id, kargs) ==
  /\ id \in Registered
  /\ Builder(id, "with_args", with_args(State, id, kargs, {}))
  /\ UNCHANGED <<nmods, flag, test_result>>

WithArgsNamed(id, kargs, kwargs) ==
  /\ id \in Registered
  /\ LET r == with_args(State, id, kargs, kwargs) IN
     /\ Commit(r)
     /\ result' = Outcome("build", exps[id].mock, exps[id].name,
                          <<"with_args", Args(kargs, kwargs)>>, r, << >>)
  /\ UNCHANGED <<nmods, flag, test_result>>

Times(id, number) ==
  /\ id \in Registered
  /\ nmods < MaxMods
  /\ Builder(id, "times", times(State, id, number))
  /\ nmods' = nmods + 1
  /\ UNCHANGED <<flag, test_result>>

AtLeast(id) ==
  /\ id \in Registered
  /\ nmods < MaxMods
  /\ Builder(id, "at_least", at_least(State, id))
  /\ nmods' = nmods + 1
  /\ UNCHANGED <<flag, test_result>>

AtMost(id) ==
  /\ id \in Registered
  /\ nmods < MaxMods
  /\ Builder(id, "at_most", at_most(State, id))
  /\ nmods' = nmods + 1
  /\ UNCHANGED <<flag, test_result>>

Ordered(id) ==
  /\ id \in Registered
  /\ ~exps[id].ordered
  /\ Builder(id, "ordered", ordered_(State, id))
  /\ UNCHANGED <<nmods, flag, test_result>>

AndReturn(id, value) ==
  /\ id \in Registered
  /\ Len(exps[id].declared) < MaxResults
  /\ Builder(id, "and_return", and_return(State, id, <<value>>))
  /\ UNCHANGED <<nmods, flag, test_result>>

\* .and_return(*values) with any number of values
AndReturnValues(id, values) ==
  /\ id \in Registered
  /\ Len(exps[id].given) < MaxResults
  /\ Builder(id, "and_return", and_return(State, id, values))
  /\ UNCHANGED <<nmods, flag, test_result>>

OneByOne(id) ==
  /\ id \in Registered
  /\ Builder(id, "one_by_one", one_by_one(State, id))
  /\ UNCHANGED <<nmods, flag, test_result>>

AndRaise(id, exception) ==
  /\ id \in Registered
  /\ Len(exps[id].declared) < MaxResults
  /\ Builder(id, "and_raise", and_raise(State, id, exception, None))
  /\ UNCHANGED <<nmods, flag, test_result>>

\* .and_raise(exception, message)
AndRaiseMessage(id, exception, message) ==
  /\ id \in Registered
  /\ Len(exps[id].declared) < MaxResults
  /\ Builder(id, "and_raise", and_raise(State, id, exception, message))
  /\ UNCHANGED <<nmods, flag, test_result>>

\* .when(lambda: flag)
When(id) ==
  /\ id \in Registered
  /\ exps[id].runnable = "true"
  /\ Builder(id, "when", when(State, id, "flag"))
  /\ UNCHANGED <<nmods, flag, test_result>>

\* The program under test changes the flag its guards read.
ReplaceWith(id, function) ==
  /\ id \in Registered
  /\ Builder(id, "replace_with", replace_with_(State, id, function))
  /\ UNCHANGED <<nmods, flag, test_result>>

AndYield(id, args) ==
  /\ id \in Registered
  /\ Len(exps[id].given) < MaxResults
  /\ Builder(id, "and_yield", and_yield(State, id, args))
  /\ UNCHANGED <<nmods, flag, test_result>>

SetFlag(b) ==
  /\ flag # b
  /\ flag' = b
  /\ result' = Outcome("flag", None, None, << >>, Return(State, b), << >>)
  /\ UNCHANGED <<dict, exps, flexmock_objects, ordered, last, properties, nmods,
               test_result>>

\* The test evaluates o.n(*kargs).
Call(o, n, kargs) ==
  /\ LET callee == GetAttr(dict, o, n)
         r == IF callee = Absent THEN Raise(State, "AttributeError", NoExp)
              ELSE Invoke(State, callee, kargs)
     IN /\ Commit(r)
        /\ result' = Outcome("call", o, n, kargs, r, << >>)
  /\ UNCHANGED <<nmods, flag, test_result>>

\* The test evaluates o.n(*kargs, **kwargs).
CallNamed(o, n, kargs, kwargs) ==
  /\ LET callee == GetAttr(dict, o, n)
         r == IF callee = Absent THEN Raise(State, "AttributeError", NoExp)
              ELSE InvokeNamed(State, callee, kargs, kwargs)
     IN /\ Commit(r)
        /\ result' = Outcome("call", o, n, Args(kargs, kwargs), r, << >>)
  /\ UNCHANGED <<nmods, flag, test_result>>

\* flexmock_teardown() at the end of a test that used flexmock
Teardown ==
  /\ flexmock_objects # << >>
  /\ LET r == flexmock_teardown(State) IN
     /\ Commit(r)
     /\ result' = Outcome("teardown", None, None, << >>, r, Flatten(flexmock_objects, 1))
  /\ UNCHANGED <<nmods, flag, test_result>>

\* -------------------------------------------------------- specifications
\* The Expectation the test's current statement is building: a statement is
\* one chain  proxy.should_receive(n).with_args(..).times(..)...  and the chain
\* ends with the first call, teardown or raised error.
Building ==
  IF result.op = "build" /\ result.kind = "return" THEN {result.value} ELSE {}

\* No teardown has run yet: the behaviour is still in its first test.
FirstTest == exps = << >> \/ flexmock_objects # << >>

\* Call counts in one test: Expectations on member m of the fake and of the
\* real instance, mocked or spied, with every chain of count modifiers, then
\* the teardown and calls after it.
Next ==
  \/ FirstTest /\ Flexmock("Inst")
  \/ \E p \in Proxies \cup {FakeProxy} : FirstTest /\ ShouldReceive(p, "m")
  \/ \E p \in Proxies : ShouldCall(p, "m")
  \/ \E id \in Building, n \in 0..MaxTimes : Times(id, n)
  \/ \E id \in Building : AtLeast(id)
  \/ \E id \in Building : AtMost(id)
  \/ \E o \in {"Fake", "Inst"} : TotalCalled < MaxCalls /\ Call(o, "m", << >>)
  \/ Teardown

Spec == Init /\ [][Next]_vars

\* Ordering and argument matching in one test: Expectations on member m of
\* the fake and of the real instance, with argument constraints, ordered or
\* not, calls with one positional argument, then the teardown.
NextOrder ==
  \/ FirstTest /\ Flexmock("Inst")
  \/ \E p \in Proxies \cup {FakeProxy} : FirstTest /\ ShouldReceive(p, "m")
  \/ \E id \in Building, v \in Values : WithArgs(id, <<v>>)
  \/ \E id \in Building : Ordered(id)
  \/ \E o \in {"Fake", "Inst"}, v \in Values :
       TotalCalled < MaxCalls /\ Call(o, "m", <<v>>)
  \/ Teardown

SpecOrder == Init /\ [][NextOrder]_vars

\* Restoring in one test: Expectations on the plain, class and static method
\* of the base class, its instance and the derived class, mocked or spied,
\* with exact counts, calls without arguments of the members that have an
\* Expectation, then the teardown.
NextRestore ==
  \/ \E o \in RealObjects : FirstTest /\ Flexmock(o)
  \/ \E p \in Proxies, n \in Members : ShouldReceive(p, n)
  \/ \E p \in Proxies, n \in Members : ShouldCall(p, n)
  \/ \E id \in Building, n \in 0..MaxTimes :
       exps[id].expected_calls[EXACTLY] = NoCount /\ Times(id, n)
  \/ \E id \in Registered :
       TotalCalled < MaxCalls /\ Call(exps[id].mock, exps[id].name, << >>)
  \/ Teardown

SpecRestore == Init /\ [][NextRestore]_vars

\* Several tests one after the other: each declares Expectations on member m
\* of the fake, ordered or with an exact count of one, the first one may
\* start with  flexmock(Inst).should_receive("p"), the stub of the property
\* of the real instance; calls without arguments; the teardown ends the test
\* and the next one starts from what it left.
NextCycle ==
  \/ exps = << >> /\ Flexmock("Inst")
  \/ Len(exps) < MaxLife /\ ShouldReceive(FakeProxy, "m")
  \/ \E p \in Partial : result.op = "flexmock" /\ ShouldReceive(p, "p")
  \/ \E id \in Building : Ordered(id)
  \/ \E id \in Building : exps[id].expected_calls[EXACTLY] = NoCount /\ Times(id, 1)
  \/ TotalCalled < MaxCalls /\ Call("Fake", "m", << >>)
  \/ Teardown

SpecCycle == Init /\ [][NextCycle]_vars

\* Ordering declared late in one test: Expectations on member m of the fake
\* with argument constraints, kept in variables by the test, which calls
\* ordered() on any of them at any later point; calls with one argument.
NextLateOrder ==
  \/ FirstTest /\ ShouldReceive(FakeProxy, "m")
  \/ \E id \in Building, v \in Values : exps[id].args.none /\ WithArgs(id, <<v>>)
  \/ \E id \in Declared : ~exps[id].ordered /\ Ordered(id)
  \/ \E v \in Values : TotalCalled < MaxCalls /\ Call("Fake", "m", <<v>>)
  \/ Teardown

SpecLateOrder == Init /\ [][NextLateOrder]_vars

\* Spies with Results in one test: spies on the plain method of the real
\* instance and on the class method of its class, each with up to MaxResults
\* Results declared by and_return: a value the original does not return, the
\* value it returns, the type str; calls without arguments.
Spied == {<<"Inst", "m">>, <<"Base", "cm">>}
SpyResults(id) == {"a", "str", OrigResult(exps[id].name)}
NextSpy ==
  \/ \E o \in {"Inst", "Base"} : FirstTest /\ Flexmock(o)
  \/ \E p \in Partial, n \in {"m", "cm"} :
       FirstTest /\ <<TargetOf(p), n>> \in Spied /\ ShouldCall(p, n)
  \/ \E id \in Building : \E v \in SpyResults(id) : AndReturn(id, v)
  \/ \E t \in Spied : TotalCalled < MaxCalls /\ Call(t[1], t[2], << >>)
  \/ Teardown

SpecSpy == Init /\ [][NextSpy]_vars

\* A spy on a member that raises, in one test: one spy on the plain method m
\* of the real instance with up to MaxResults Results, values or exception
\* classes with or without a message; calls without arguments, which m
\* answers, and with two arguments, for which m raises TypeError.
Raised == {"TypeError", "Exception", "Boom"}
Messages == {None, "takes", "other"}
NextSpyRaise ==
  \/ exps = << >> /\ Flexmock("Inst")
  \/ \E p \in Partial : FirstTest /\ Declared = {} /\ ShouldCall(p, "m")
  \/ \E id \in Building : AndReturn(id, "a")
  \/ \E id \in Building, c \in Raised, msg \in Messages : AndRaiseMessage(id, c, msg)
  \/ \E kargs \in {<< >>, <<"a", "b">>} :
       TotalCalled < MaxCalls /\ Call("Inst", "m", kargs)
  \/ Teardown

SpecSpyRaise == Init /\ [][NextSpyRaise]_vars

\* Proxies requested again and again: every statement of a test starts with
\* flexmock(o) for the real instance or its class and declares an Expectation
\* on the method m or on the property p through the proxy it was handed;
\* the teardown ends the test and the next one starts.
NextProxy ==
  \/ \E o \in {"Inst", "Base"} : Request(o)
  \/ \E n \in {"m", "p"} :
       /\ result.op = "flexmock"
       /\ Len(exps) < MaxLife
       /\ ShouldReceive(result.exp, n)
  \/ \E id \in Registered : TotalCalled < MaxCalls /\ exps[id].name = "m"
                             /\ Call(exps[id].mock, "m", <<"a">>)
  \/ Teardown

SpecProxy == Init /\ [][NextProxy]_vars

\* Stubs of attributes in one test: Expectations on the property p and on the
\* method m of the real instance; and_return on the stub of p leaves a value
\* in the instance, so that the next should_receive("p") stubs a data
\* attribute.  A chain on m may have ordered() and times(1); a chain on a
\* stub of p tries every builder method; calls of m.
Stub(id) == ~exps[id].callable
NextStubs ==
  \/ exps = << >> /\ Flexmock("Inst")
  \/ \E p \in Partial, n \in {"p", "m"} : FirstTest /\ ShouldReceive(p, n)
  \/ \E id \in Building : Stub(id) /\ exps[id].given = << >> /\ AndReturn(id, "a")
  \/ \E id \in Building : Stub(id) /\ WithArgs(id, << >>)
  \/ \E id \in Building :
       exps[id].expected_calls[EXACTLY] = NoCount /\ Times(id, 1)
  \/ \E id \in Building : Stub(id) /\ AtLeast(id)
  \/ \E id \in Building : Stub(id) /\ AtMost(id)
  \/ \E id \in Building : ~exps[id].ordered /\ Ordered(id)
  \/ \E id \in Building : Stub(id) /\ When(id)
  \/ \E id \in Building : Stub(id) /\ ReplaceWith(id, Func("sm"))
  \/ \E id \in Building : Stub(id) /\ AndRaise(id, "Boom")
  \/ \E id \in Building : Stub(id) /\ AndYield(id, <<"a">>)
  \/ \E id \in Building : Stub(id) /\ OneByOne(id)
  \/ TotalCalled < MaxCalls /\ Call("Inst", "m", << >>)
  \/ Teardown

SpecStubs == Init /\ [][NextStubs]_vars

\* Guards in one test: Expectations on member m of the fake and of the real
\* instance, mocked or spied, guarded by the flag or not, ordered or not,
\* with one Result or none; the program changes the flag between the calls,
\* which carry no arguments; then the teardown.
NextGuard ==
  \/ FirstTest /\ Flexmock("Inst")
  \/ \E p \in Partial \cup {FakeProxy} : FirstTest /\ ShouldReceive(p, "m")
  \/ \E p \in Partial : ShouldCall(p, "m")
  \/ \E id \in Building : When(id)
  \/ \E id \in Building : Ordered(id)
  \/ \E id \in Building : exps[id].declared = << >> /\ AndReturn(id, "a")
  \/ \E id \in Building : exps[id].declared = << >> /\ AndRaise(id, "Boom")
  \/ \E b \in BOOLEAN : SetFlag(b)
  \/ \E o \in {"Fake", "Inst"} :
       TotalCalled + TotalRefused < MaxCalls /\ Call(o, "m", << >>)
  \/ Teardown

SpecGuard == Init /\ [][NextGuard]_vars

\* Results in one test: Expectations on member m of the fake, each declared
\* in one chain  should_receive("m").with_args("a").and_return(..)
\* .and_raise(..).when(..).ordered().times(1)  of which every part may be
\* left out, with up to MaxResults Results and MaxLinks parts in all; calls
\* with one argument while the program changes the flag; then the teardown.
Uncounted(id) == exps[id].expected_calls[EXACTLY] = NoCount
Unchained(id) == ~exps[id].ordered /\ Uncounted(id)
Unguarded(id) == exps[id].runnable = "true" /\ Unchained(id)

RECURSIVE SumLinks(_, _)
SumLinks(q, i) ==
  IF i > Len(q) THEN 0
  ELSE Len(q[i].declared)
       + (IF q[i].args.none THEN 0 ELSE 1)
       + (IF q[i].runnable = "true" THEN 0 ELSE 1)
       + (IF q[i].ordered THEN 1 ELSE 0)
       + (IF q[i].expected_calls[EXACTLY] = NoCount THEN 0 ELSE 1)
       + SumLinks(q, i + 1)
\* The builder calls the test has chained on its Expectations.
Links == SumLinks(exps, 1)

NextResults ==
  \/ FirstTest /\ ShouldReceive(FakeProxy, "m")
  \/ \E id \in Building :
       /\ Links < MaxLinks
       /\ exps[id].args.none /\ exps[id].declared = << >> /\ Unguarded(id)
       /\ WithArgs(id, <<"a">>)
  \/ \E id \in Building, v \in Values :
       Links < MaxLinks /\ Unguarded(id) /\ AndReturn(id, v)
  \/ \E id \in Building : Links < MaxLinks /\ Unguarded(id) /\ AndRaise(id, "Boom")
  \/ \E id \in Building : Links < MaxLinks /\ Unchained(id) /\ When(id)
  \/ \E id \in Building : Links < MaxLinks /\ Uncounted(id) /\ Ordered(id)
  \/ \E id \in Building : Links < MaxLinks /\ Uncounted(id) /\ Times(id, 1)
  \/ \E b \in BOOLEAN : Building = {} /\ SetFlag(b)
  \/ \E v \in Values :
       TotalCalled + TotalRefused < MaxRotation /\ Call("Fake", "m", <<v>>)
  \/ Teardown

SpecResults == Init /\ [][NextResults]_vars

\* Errors in one test: Expectations on member m of the real instance, with
\* one or two positional arguments asked for, count modifiers in any chain,
\* calls with one argument, then the teardown.
ArgLists == {<<"a">>, <<"a", "b">>}

NextErrors ==
  \/ FirstTest /\ Flexmock("Inst")
  \/ \E p \in Partial : FirstTest /\ ShouldReceive(p, "m")
  \/ \E id \in Building, kargs \in ArgLists : exps[id].args.none /\ WithArgs(id, kargs)
  \/ \E id \in Building, n \in 0..1 : Times(id, n)
  \/ \E id \in Building : AtLeast(id)
  \/ \E id \in Building : AtMost(id)
  \/ TotalCalled < MaxCalls /\ Call("Inst", "m", <<"a">>)
  \/ Teardown

SpecErrors == Init /\ [][NextErrors]_vars

\* Restore failures in one test and the next: Expectations on member m of the
\* real instance and of the instance whose class refuses delattr, ordered or
\* with an exact count; calls without arguments; the teardown, after which
\* the test that follows declares and calls in its turn.
NextFaults ==
  \/ \E o \in {"Inst", "Lock"} : FirstTest /\ Flexmock(o)
  \/ \E p \in Partial : ShouldReceive(p, "m")
  \/ \E id \in Building : Uncounted(id) /\ Ordered(id)
  \/ \E id \in Building, n \in 0..1 : Uncounted(id) /\ Times(id, n)
  \/ \E o \in {"Inst", "Lock"} : TotalCalled < MaxCalls /\ Call(o, "m", << >>)
  \/ Teardown

SpecFaults == Init /\ [][NextFaults]_vars

\* Values one by one in one test: Expectations on member m of the fake, each
\* declared in one chain of one and_return(..) with no, one or two values
\* and one_by_one(), in either order; calls without arguments; then the
\* teardown.
ReturnLists == {<< >>, <<"a">>, <<"ab">>, <<"a", "b">>, <<"b", "a">>, <<"ab", "a">>}

NextOneByOne ==
  \/ FirstTest /\ ShouldReceive(FakeProxy, "m")
  \/ \E id \in Building, values \in ReturnLists :
       exps[id].given = << >> /\ AndReturnValues(id, values)
  \/ \E id \in Building : ~exps[id].one_by_one /\ OneByOne(id)
  \/ TotalCalled < MaxSuccessive /\ Call("Fake", "m", << >>)
  \/ Teardown

SpecOneByOne == Init /\ [][NextOneByOne]_vars

\* ------------------------------------------------------------- call counts
\* What the last operation raised, if it raised a call-count error.
RaisedCount == result.kind = "raise" /\ result.value = "MethodCallError"
RaisedCountFor(id) == RaisedCount /\ result.exp = id

\* The Expectations the last operation verified: every one of the registry at
\* a teardown, the selected ones at a call.
Verified ==
  IF result.op = "teardown" THEN SeqToSet(result.saved)
  ELSE IF result.op = "call" THEN SeqToSet(result.hits) ELSE {}

\* A call-count failure had been raised for id before the last operation.
FailedBefore(id) == exps[id].verified /\ ~RaisedCountFor(id)

\* times(n) and no other count
OnlyTimes(e) ==
  /\ e.expected_calls[EXACTLY] # NoCount
  /\ e.expected_calls[AT_LEAST] = NoCount
  /\ e.expected_calls[AT_MOST] = NoCount

\* at_least().times(a).at_most().times(b)
Between(e) ==
  /\ e.expected_calls[EXACTLY] = NoCount
  /\ e.expected_calls[AT_LEAST] # NoCount
  /\ e.expected_calls[AT_MOST] # NoCount

\* times(m) or at_most().times(m): one configured maximum
HasMaximum(e) ==
  (e.expected_calls[EXACTLY] # NoCount) # (e.expected_calls[AT_MOST] # NoCount)
Maximum(e) ==
  IF e.expected_calls[EXACTLY] # NoCount
  THEN e.expected_calls[EXACTLY] ELSE e.expected_calls[AT_MOST]

\* Per-target declaration order of the Expectations a teardown verified:
\* targets in the order of their first registration, the Expectations of one
\* target in the order of their declaration.
FirstOf(id) ==
  CHOOSE j \in SeqToSet(result.saved) :
    /\ exps[j].mock = exps[id].mock
    /\ \A k \in SeqToSet(result.saved) : exps[k].mock = exps[id].mock => j <= k
Precedes(a, b) ==
  \/ FirstOf(a) < FirstOf(b)
  \/ FirstOf(a) = FirstOf(b) /\ a < b

\* C1: at teardown an Expectation configured with times(n) alone is not the
\* one teardown raises for when it was called exactly n times, and teardown
\* raises a call-count error, for it unless an Expectation verified before it
\* failed, when it was called n-1 times.
C1_TimesExact ==
  result.op = "teardown" =>
    \A id \in SeqToSet(result.saved) :
      LET e == exps[id]
          n == e.expected_calls[EXACTLY]
      IN OnlyTimes(e) =>
           /\ e.times_called = n => result.exp # id
           /\ e.times_called = n - 1 =>
                /\ RaisedCount
                /\ result.exp = id \/ Precedes(result.exp, id)

C1_Witness ==
  /\ result.op = "teardown"
  /\ \E id, ok \in SeqToSet(result.saved) :
       /\ OnlyTimes(exps[id]) /\ OnlyTimes(exps[ok])
       /\ exps[id].expected_calls[EXACTLY] = 1 /\ exps[id].times_called = 0
       /\ exps[ok].expected_calls[EXACTLY] = 1 /\ exps[ok].times_called = 1
       /\ RaisedCountFor(id)

\* C2 as stated: every matched call that brings times_called above the
\* configured maximum raises a call-count error from the call.
C2_EveryCallAboveRaises ==
  result.op = "call" =>
    \A id \in SeqToSet(result.hits) :
      HasMaximum(exps[id]) /\ exps[id].times_called > Maximum(exps[id])
        => RaisedCountFor(id)

\* C2 amended: a matched call that brings times_called above the configured
\* maximum raises a call-count error from the call unless a call-count
\* failure has already been raised for that Expectation.
C2_FirstCallAboveRaises ==
  result.op = "call" =>
    \A id \in SeqToSet(result.hits) :
      /\ HasMaximum(exps[id])
      /\ exps[id].times_called > Maximum(exps[id])
      /\ ~FailedBefore(id)
      => RaisedCountFor(id)

C2_Witness ==
  /\ result.op = "call"
  /\ \E id \in SeqToSet(result.hits) :
       /\ HasMaximum(exps[id])
       /\ exps[id].expected_calls[AT_MOST] = 1
       /\ exps[id].times_called = 2
       /\ RaisedCountFor(id)

\* C3 as stated: an Expectation with at least a and at most b: teardown
\* raises a call-count error after fewer than a calls, does not raise for it
\* after a to b calls, and the call that brings the count to b+1 raises at once.
C3_AtLeastAtMostAsStated ==
  \A id \in Verified :
    LET e == exps[id]
        a == e.expected_calls[AT_LEAST]
        b == e.expected_calls[AT_MOST]
    IN Between(e) =>
         /\ result.op = "teardown" /\ e.times_called < a =>
              /\ RaisedCount
              /\ result.exp = id \/ Precedes(result.exp, id)
         /\ result.op = "teardown" /\ a <= e.times_called /\ e.times_called <= b =>
              result.exp # id
         /\ result.op = "call" /\ e.times_called = b + 1 => RaisedCountFor(id)

\* C3 amended: the same, where teardown raises after fewer than a calls only
\* when the calls did not go above b; with a > b + 1 the call that goes above
\* b has raised the error and the teardown is silent about it.
C3_AtLeastAtMost ==
  \A id \in Verified :
    LET e == exps[id]
        a == e.expected_calls[AT_LEAST]
        b == e.expected_calls[AT_MOST]
    IN Between(e) =>
         /\ result.op = "teardown" /\ e.times_called < a /\ e.times_called <= b =>
              /\ RaisedCount
              /\ result.exp = id \/ Precedes(result.exp, id)
         /\ result.op = "teardown" /\ e.times_called < a /\ e.times_called > b =>
              result.exp # id
         /\ result.op = "teardown" /\ a <= e.times_called /\ e.times_called <= b =>
              result.exp # id
         /\ result.op = "call" /\ e.times_called = b + 1 => RaisedCountFor(id)

C3_Witness ==
  /\ result.op = "call"
  /\ \E id \in SeqToSet(result.hits) :
       /\ Between(exps[id])
       /\ exps[id].expected_calls[AT_LEAST] = 1
       /\ exps[id].expected_calls[AT_MOST] = 1
       /\ exps[id].times_called = 2
       /\ RaisedCountFor(id)

\* C9: no Expectation raises its call-count failure more than once.
C9_RaisedAtMostOnce ==
  \A id \in 1..Len(exps) : exps[id].raised <= 1

\* A teardown that is silent about an Expectation that is over its count and
\* raised for it at a call.
C9_Witness ==
  /\ result.op = "teardown" /\ result.kind = "return"
  /\ \E id \in SeqToSet(result.saved) :
       /\ exps[id].raised = 1
       /\ _verify_number_of_calls(exps[id], TRUE)

\* The Expectations of a teardown whose count is not satisfied.
Unsatisfied ==
  {id \in SeqToSet(result.saved) : _verify_number_of_calls(exps[id], TRUE)}

\* C10 as stated: teardown raises for the first Expectation, in per-target
\* declaration order, whose call count is unsatisfied, and raises for none
\* when every count is satisfied.
C10_FirstUnsatisfied ==
  result.op = "teardown" =>
    IF Unsatisfied = {} THEN ~RaisedCount
    ELSE /\ RaisedCount
         /\ result.exp \in Unsatisfied
         /\ \A u \in Unsatisfied : u = result.exp \/ Precedes(result.exp, u)

\* C10 amended: the same, over the unsatisfied Expectations for which no
\* call-count failure was raised at a call.
C10_FirstUnreported ==
  result.op = "teardown" =>
    LET U == {id \in Unsatisfied : ~FailedBefore(id)} IN
    IF U = {} THEN ~RaisedCount
    ELSE /\ RaisedCount
         /\ result.exp \in U
         /\ \A u \in U : u = result.exp \/ Precedes(result.exp, u)

\* Two unsatisfied Expectations on two targets.
C10_Witness ==
  /\ result.op = "teardown"
  /\ \E u, v \in Unsatisfied :
       /\ exps[u].mock # exps[v].mock
       /\ Precedes(u, v)
       /\ RaisedCountFor(u)

\* ------------------------------------------------- ordering and matching
\* The Expectations registered for the target and member of the last call.
ListOf(o) ==
  LET p == IF o = "Fake" THEN FakeProxy ELSE ProxyOf(flexmock_objects, o)
      i == ObjIndex(flexmock_objects, p)
  IN IF (o # "Fake" /\ p = 0) \/ i = 0 THEN << >> ELSE flexmock_objects[i].exps
Matching ==
  {id \in SeqToSet(ListOf(result.target)) :
     /\ exps[id].name = result.name
     /\ _match_args(exps[id], Args(result.args, {}))}

\* Two ordered Expectations declared in this order on one member of one target
OrderedPair(e1, e2) ==
  /\ e1 < e2
  /\ exps[e1].ordered /\ exps[e2].ordered
  /\ exps[e1].mock = exps[e2].mock /\ exps[e1].name = exps[e2].name

\* C4: with ordered Expectations E1 then E2 on one member, the call that
\* finds both waiting and matches only E2 raises a call-order error, and the
\* call that matches E2 after a call that matched E1 returns.
C4_CallOrder ==
  result.op = "call" =>
    \A e1, e2 \in SeqToSet(ListOf(result.target)) :
      OrderedPair(e1, e2) /\ exps[e1].name = result.name =>
        /\ ordered = <<e2>> /\ last = e1 /\ Matching = {e2} =>
             result.kind = "raise" /\ result.value = "CallOrderError"
        /\ ordered = << >> /\ last = e2 /\ result.hits = <<e2>>
           /\ exps[e1].times_called = 1 =>
             result.kind = "return"

\* The first call matches only E2 and is refused.
C4_Witness ==
  /\ result.op = "call" /\ result.value = "CallOrderError"
  /\ \E e1, e2 \in SeqToSet(ListOf(result.target)) :
       /\ OrderedPair(e1, e2)
       /\ ordered = <<e2>> /\ last = e1 /\ Matching = {e2}
       /\ exps[e1].times_called = 0 /\ exps[e2].times_called = 0

\* E1 then E2, both answered.
C4_WitnessInOrder ==
  /\ result.op = "call" /\ result.kind = "return"
  /\ \E e1, e2 \in SeqToSet(ListOf(result.target)) :
       /\ OrderedPair(e1, e2)
       /\ ordered = << >> /\ last = e2 /\ result.hits = <<e2>>
       /\ exps[e1].times_called = 1

\* C5: when the Expectations of the called member whose arguments match are
\* all unordered, the call is dispatched to the most recently declared of them.
C5_MostRecentMatch ==
  (/\ result.op = "call"
   /\ Matching # {}
   /\ \A id \in Matching : ~exps[id].ordered)
    => /\ result.hits # << >>
      /\ \A id \in Matching : id <= result.hits[1]
      /\ result.hits[1] \in Matching

\* Disjoint constraints A then B: a call matching only A goes to A.
C5_Witness ==
  /\ result.op = "call"
  /\ \E a, b \in SeqToSet(ListOf(result.target)) :
       /\ a < b /\ exps[a].name = exps[b].name
       /\ ~exps[a].ordered /\ ~exps[b].ordered
       /\ ~exps[a].args.none /\ ~exps[b].args.none
       /\ exps[a].args # exps[b].args
       /\ Matching = {a}
       /\ result.hits = <<a>>

\* Two matching Expectations: the later one is selected.
C5_WitnessBoth ==
  /\ result.op = "call"
  /\ \E a, b \in Matching : a < b /\ result.hits = <<b>>

\* The Expectation the lookup of the last call settled on: the one the
\* call-order error is about, or the first one the dispatch handled.
Selected(r) ==
  IF r.op # "call" THEN NoExp
  ELSE IF r.value = "CallOrderError" THEN r.exp
  ELSE IF r.hits # << >> THEN r.hits[1]
  ELSE NoExp

Waiting(id) == \E i \in 1..Len(ordered) : ordered[i] = id

\* Ordered Expectations X, then Y, on different proxies or different members
Across(x, y) ==
  /\ x < y
  /\ exps[x].ordered /\ exps[y].ordered
  /\ exps[x].mock # exps[y].mock \/ exps[x].name # exps[y].name

\* C12: the ordered chain is one queue for all proxies and members: when
\* ordered X was declared before ordered Y on another proxy or member and X
\* is still waiting, a call that the lookup gives to Y raises CallOrderError.
C12_SharedQueue ==
  [][\A x, y \in Registered :
       (/\ Across(x, y)
        /\ Waiting(x)
        /\ result'.op = "call"
        /\ Selected(result') = y)
         => result'.kind = "raise" /\ result'.value = "CallOrderError"]_vars

\* Y on the real instance is called while X on the fake was never called.
C12_Witness ==
  /\ result.op = "call" /\ result.value = "CallOrderError"
  /\ \E x, y \in Registered :
       /\ Across(x, y)
       /\ exps[x].mock = "Fake" /\ exps[y].mock = "Inst"
       /\ result.exp = y /\ last = x
       /\ exps[x].times_called = 0 /\ exps[y].times_called = 0
       /\ Waiting(y)

\* The Expectations of the called member whose arguments match call r
MatchingOf(r) ==
  {id \in Registered :
     /\ exps[id].mock = r.target
     /\ exps[id].name = r.name
     /\ _match_args(exps[id], Args(r.args, {}))}

\* An ordered Expectation that was reached in its turn and has left the queue
Drained(e) == exps[e].ordered /\ ~Waiting(e) /\ exps[e].times_called >= 1

MatchingWaiting(r) == {e \in MatchingOf(r) : exps[e].ordered /\ Waiting(e)}
MatchingUnordered(r) == {e \in MatchingOf(r) : ~exps[e].ordered}

\* C14: while a matching ordered Expectation waits in the queue the lookup
\* settles on a waiting one, whatever unordered Expectations match and
\* wherever they were declared; when none waits, the call is dispatched to
\* the most recently declared matching unordered Expectation.
C14_WaitingOrderedPreferred ==
  [][result'.op = "call" =>
       /\ MatchingWaiting(result') # {}
            => Selected(result') \in MatchingWaiting(result')
       /\ (MatchingWaiting(result') = {} /\ MatchingUnordered(result') # {})
            => /\ result'.hits # << >>
               /\ result'.hits[1] \in MatchingUnordered(result')
               /\ \A u \in MatchingUnordered(result') : u <= result'.hits[1]]_vars

\* An unordered Expectation declared after the ordered one matches as well,
\* and the ordered one answers.
C14_Witness ==
  /\ result.op = "call" /\ result.kind = "return"
  /\ \E w, u \in MatchingOf(result) :
       /\ w < u
       /\ exps[w].ordered /\ ~exps[u].ordered
       /\ result.hits = <<w>> /\ last = w
       /\ exps[w].times_called = 1 /\ exps[u].times_called = 0

\* The ordered Expectation has left the queue and the unordered one declared
\* before it answers.
C14_WitnessAfter ==
  /\ result.op = "call" /\ result.kind = "return"
  /\ \E w, u \in MatchingOf(result) :
       /\ u < w
       /\ Drained(w) /\ ~exps[u].ordered
       /\ result.hits = <<u>>
       /\ exps[u].times_called = 1

\* C15: a call whose lookup settles on an ordered Expectation makes one
\* order check, and the check removes exactly the head of the queue and
\* records it as the last one, whether it passes or raises CallOrderError;
\* a call that makes no order check leaves the queue as it was.
C15_HeadDequeued ==
  [][result'.op = "call" =>
       IF Selected(result') # NoExp /\ exps[Selected(result')].ordered
       THEN /\ ordered # << >>
            /\ ordered' = Tail(ordered)
            /\ last' = Head(ordered)
            /\ \A i \in 1..Len(ordered') : ordered'[i] # Head(ordered)
       ELSE ordered' = ordered /\ last' = last]_vars

\* Both ordered Expectations of one member wait, the call matches the
\* second: the error is raised and the first has left the queue.
C15_Witness ==
  /\ result.op = "call" /\ result.value = "CallOrderError"
  /\ \E x, y \in Registered :
       /\ OrderedPair(x, y)
       /\ result.exp = y /\ last = x
       /\ ~Waiting(x) /\ ordered = <<y>>
       /\ exps[x].times_called = 0

\* C16 as stated: an Expectation without argument constraint takes a call
\* only when no Expectation with a constraint matches it.
C16_FallbackOnly ==
  (/\ result.op = "call"
   /\ result.hits # << >>
   /\ \A id \in MatchingOf(result) : ~exps[id].ordered)
    => (exps[result.hits[1]].args.none
          => \A a \in MatchingOf(result) : exps[a].args.none)

\* C16: among unordered Expectations the place of declaration decides.  An
\* Expectation without argument constraint takes every call of the member
\* when it was declared after all the others that match, and gives way to a
\* matching Expectation declared after it.
C16_UnconstrainedByDeclaration ==
  (/\ result.op = "call"
   /\ \A id \in MatchingOf(result) : ~exps[id].ordered)
    => \A u \in MatchingOf(result) :
         exps[u].args.none =>
           /\ (\A a \in MatchingOf(result) : a <= u) => result.hits = <<u>>
           /\ (\E a \in MatchingOf(result) : a > u)
                => result.hits # << >> /\ result.hits[1] > u

\* with_args(v) first, the unconstrained Expectation second, the call m(v):
\* the unconstrained one answers.
C16_Witness ==
  /\ result.op = "call" /\ result.kind = "return"
  /\ \E a, u \in MatchingOf(result) :
       /\ a < u
       /\ ~exps[a].args.none /\ exps[u].args.none
       /\ ~exps[a].ordered /\ ~exps[u].ordered
       /\ result.hits = <<u>>
       /\ exps[a].times_called = 0 /\ exps[u].times_called = 1

\* ------------------------------------------------------- claims on cycles
\* C11: when flexmock_teardown has finished, by returning or by raising a
\* verification error, the registry holds no Expectation, the ordering queue
\* is empty and the property table is empty; so every Expectation that waits
\* in the queue, and every one a call-order error names as the expected
\* call, was declared in the test that is running.
C11_RegistryEmptyAfterTeardown ==
  /\ result.op = "teardown" =>
       /\ flexmock_objects = << >>
       /\ ordered = << >>
       /\ properties = << >>
       /\ last = NoExp
  /\ \A i \in 1..Len(ordered) : ordered[i] \in Registered
  /\ (result.op = "call" /\ result.value = "CallOrderError") => last \in Registered

\* The teardown raised a call-count error while an ordered Expectation was
\* never called and the property of the instance was stubbed.
C11_Witness ==
  /\ result.op = "teardown" /\ result.kind = "raise"
  /\ result.value = "MethodCallError"
  /\ \E e \in SeqToSet(result.saved) : exps[e].ordered /\ exps[e].times_called = 0
  /\ \E e \in SeqToSet(result.saved) : exps[e].name = "p" /\ ~exps[e].callable

\* In the test after one that left an ordered Expectation uncalled, the call
\* to the one ordered Expectation of the new test returns.
C11_WitnessNextTest ==
  /\ result.op = "call" /\ result.kind = "return"
  /\ \E old, new \in Named :
       /\ old < new
       /\ old \notin Registered /\ exps[old].ordered /\ exps[old].times_called = 0
       /\ new \in Registered /\ exps[new].ordered
       /\ result.hits = <<new>> /\ last = new

\* ------------------------------------------------------- claims on guards
\* The guard of Expectation e answers False in the current state
GuardFalse(e) == exps[e].runnable = "flag" /\ ~flag

C17_WitnessRefused ==
  /\ result.op = "call" /\ result.value = "StateError"
  /\ ~flag
  /\ \E e \in Registered :
       /\ result.hits = <<e>> /\ exps[e].refused = 1
       /\ exps[e].times_called = 0 /\ exps[e].return_values # << >>

\* C18 as stated: the guard is asked before the order check, so a call whose
\* lookup settles on an ordered Expectation with a False guard raises
\* StateError and leaves the queue as it was.
C18_GuardBeforeOrder ==
  [][(/\ result'.op = "call"
      /\ Selected(result') # NoExp
      /\ exps[Selected(result')].ordered
      /\ GuardFalse(Selected(result')))
       => /\ ordered' = ordered
          /\ result'.value = "StateError"]_vars

\* C18: the guard is asked after the lookup and the order check.  A call
\* whose lookup settles on an ordered Expectation with a False guard first
\* dequeues the head of the queue; it raises CallOrderError when the
\* Expectation is not that head and StateError when it is, and in both cases
\* the head has left the queue.
C18_OrderBeforeGuard ==
  [][(/\ result'.op = "call"
      /\ Selected(result') # NoExp
      /\ exps[Selected(result')].ordered
      /\ GuardFalse(Selected(result')))
       => /\ ordered # << >>
          /\ ordered' = Tail(ordered)
          /\ last' = Head(ordered)
          /\ result'.kind = "raise"
          /\ result'.value =
               IF Selected(result') = Head(ordered) THEN "StateError"
               ELSE "CallOrderError"
          /\ exps'[Selected(result')].times_called =
               exps[Selected(result')].times_called]_vars

\* The guarded ordered Expectation was the head: the call is refused and the
\* Expectation has left the queue.
C18_Witness ==
  /\ result.op = "call" /\ result.value = "StateError"
  /\ \E e \in Registered :
       /\ result.hits = <<e>>
       /\ exps[e].ordered /\ GuardFalse(e)
       /\ last = e /\ ~Waiting(e)
       /\ exps[e].times_called = 0

\* C19: timesCalled is 0 in a new Expectation, and a step adds one to it
\* exactly when the step is a call that the dispatch handed to the
\* Expectation, after the order check, while its guard answered True,
\* whatever the call then returned or raised; every other step, and a call
\* handed to another Expectation or to none, leaves it as it was.
C19_TimesCalledCounts ==
  [][/\ \A e \in 1..Len(exps) :
          exps'[e].times_called =
            exps[e].times_called +
              (IF result'.op = "call" /\ result'.hits = <<e>> /\ ~GuardFalse(e)
               THEN 1 ELSE 0)
     /\ \A e \in (Len(exps) + 1)..Len(exps') : exps'[e].times_called = 0]_vars

\* Two Expectations on one member; the later one raises its configured
\* exception and is counted, the earlier one is not.
C19_Witness ==
  /\ result.op = "call" /\ result.kind = "raise" /\ result.value = "Boom"
  /\ \E e, other \in Registered :
       /\ other < e
       /\ exps[other].mock = exps[e].mock /\ exps[other].name = exps[e].name
       /\ result.hits = <<e>>
       /\ exps[e].times_called = 1 /\ exps[other].times_called = 0

\* ------------------------------------------------------ claims on Results
\* The outcome of call r is Result rv: its value returned or its exception
\* raised
Yields(r, rv) ==
  IF rv.raises # None THEN r.kind = "raise" /\ r.value = rv.raises
  ELSE r.kind = "return" /\ r.value = rv.value

\* The dispatch handed call r to Expectation e and none of the guard and the
\* call-count check rejected it
Accepted(r, e) ==
  /\ r.hits = <<e>>
  /\ ~GuardFalse(e)
  /\ ~(r.kind = "raise" /\ r.value = "MethodCallError" /\ r.exp = e)

\* C20: on an Expectation that is no spy and has k Results, the call that
\* reaches the production of a result after i earlier ones yields the Result
\* declared at place i mod k, by returning its value or raising its
\* exception; a call reaches the production exactly when it is handed to the
\* Expectation and is rejected by neither the guard nor the call-count check,
\* and any other call leaves the rotation where it was.
C20_RoundRobin ==
  [][\A e \in 1..Len(exps) :
       LET k == Len(exps[e].declared)
           i == exps[e].produced
       IN (result'.op = "call" /\ k > 0 /\ ~exps[e].pass_thru) =>
            IF Accepted(result', e)
            THEN /\ Yields(result', exps[e].declared[(i % k) + 1])
                 /\ exps'[e].produced = i + 1
                 /\ Head(exps'[e].return_values) = exps[e].declared[((i + 1) % k) + 1]
            ELSE /\ exps'[e].produced = i
                 /\ exps'[e].return_values = exps[e].return_values]_vars

\* Two different Results and three calls: the third call yields the first
\* Result again.
C20_Witness ==
  /\ result.op = "call"
  /\ \E e \in Registered :
       /\ result.hits = <<e>>
       /\ Len(exps[e].declared) = 2
       /\ exps[e].declared[1] # exps[e].declared[2]
       /\ exps[e].produced = 3
       /\ Yields(result, exps[e].declared[1])

\* A call that the call-count check, the guard, the order check or the
\* argument matching rejected after a Result was produced once.
C20_WitnessRejected ==
  /\ result.op = "call" /\ result.kind = "raise"
  /\ result.value \in {"MethodCallError", "StateError", "CallOrderError",
                        "MethodSignatureError"}
  /\ \E e \in Registered :
       /\ Len(exps[e].declared) = 2 /\ exps[e].produced = 1
       /\ Head(exps[e].return_values) = exps[e].declared[2]

\* ------------------------------------------------- claims on one_by_one
\* Expectation e was configured by one and_return(values) and one_by_one(),
\* in either order, and is no spy
OneByOneOf(e, values) ==
  /\ exps[e].one_by_one
  /\ exps[e].given = <<values>>
  /\ ~exps[e].pass_thru

\* Two Expectations give the same answers to the same calls
SameResults(x, y) ==
  /\ exps[x].return_values = exps[y].return_values
  /\ exps[x].one_by_one = exps[y].one_by_one

\* The values and_return(values) with one_by_one stands for: two or more
\* values are the list themselves, one value that can be iterated is taken
\* as the list of its items, and one that cannot, or none, is one Result.
ListOfValues(values) ==
  IF Len(values) >= 2 THEN values
  ELSE IF values = << >> THEN <<None>>
  ELSE IF CanIterate(values[1]) THEN Items(values[1])
  ELSE values

\* C21 as stated: and_return(v1, ..., vk) with one_by_one, in either order,
\* makes successive calls return v1, ..., vk and then v1 again, for every k
\* from one on.
C21_ValuesInTurn ==
  [][\A e \in 1..Len(exps), values \in ReturnLists \ {<< >>} :
       (/\ OneByOneOf(e, values)
        /\ result'.op = "call"
        /\ Accepted(result', e))
         => /\ result'.kind = "return"
            /\ result'.value = values[(exps[e].produced % Len(values)) + 1]]_vars

\* C21: and_return(v1, ..., vk).one_by_one() and
\* one_by_one().and_return(v1, ..., vk) leave the same Results.  With two or
\* more values successive calls return v1, ..., vk and then v1 again; one
\* value that can be iterated is itself taken as the list, so the calls
\* return its items in turn; one value that cannot be iterated, or no value,
\* is returned by every call.
C21_ItemsInTurn ==
  [][/\ \A e \in 1..Len(exps), values \in ReturnLists :
          (/\ OneByOneOf(e, values)
           /\ result'.op = "call"
           /\ Accepted(result', e))
            => LET list == ListOfValues(values) IN
               /\ result'.kind = "return"
               /\ result'.value = list[(exps[e].produced % Len(list)) + 1]
     /\ \A x, y \in 1..Len(exps'), values \in ReturnLists :
          (/\ exps'[x].one_by_one /\ exps'[y].one_by_one
           /\ exps'[x].given = <<values>> /\ exps'[y].given = <<values>>
           /\ exps'[x].produced = exps'[y].produced)
            => exps'[x].return_values = exps'[y].return_values]_vars

\* and_return("a", "b").one_by_one() called four times: the fourth call
\* returns "b".
C21_Witness ==
  /\ result.op = "call" /\ result.kind = "return" /\ result.value = "b"
  /\ \E e \in Registered :
       /\ OneByOneOf(e, <<"a", "b">>)
       /\ exps[e].split = 1
       /\ result.hits = <<e>> /\ exps[e].produced = 4

\* one_by_one().and_return("a", "b") called four times.
C21_WitnessBefore ==
  /\ result.op = "call" /\ result.kind = "return" /\ result.value = "b"
  /\ \E e \in Registered :
       /\ OneByOneOf(e, <<"a", "b">>)
       /\ exps[e].split = 0
       /\ result.hits = <<e>> /\ exps[e].produced = 4

\* Both orders in one test, on two Expectations.
C21_WitnessSame ==
  \E x, y \in Registered :
    /\ OneByOneOf(x, <<"ab", "a">>) /\ OneByOneOf(y, <<"ab", "a">>)
    /\ exps[x].split = 1 /\ exps[y].split = 0
    /\ SameResults(x, y)

\* and_return("ab").one_by_one(): the first call returns "a".
C21_WitnessOneValue ==
  /\ result.op = "call" /\ result.kind = "return" /\ result.value = "a"
  /\ \E e \in Registered :
       /\ OneByOneOf(e, <<"ab">>)
       /\ result.hits = <<e>> /\ exps[e].produced = 1

\* --------------------------------------------------------------- restoring
\* The names in the immediate storage of o.
NamesOf(d, o) == {k \in Keys : InDict(d, o, k)}

\* A trampoline, plain or bound, or a method the library attached.
IsInstrumentation(v) ==
  \/ v.k = "api"
  \/ v.k = "mock_method"
  \/ v.k = "method" /\ v.func.k = "mock_method"

\* The kind of member n of o: how a call through o binds it.
KindOf(d, o, n) ==
  LET v == GetAttrStatic(d, o, n)
      own == ~IsClass(o) /\ InDict(d, o, n)
  IN CASE v.k = "classmethod" -> "class"
       [] v.k = "staticmethod" -> "static"
       [] v.k = "function" -> IF own THEN "static" ELSE "plain"
       [] v.k = "method" /\ v.func.k = "function" ->
            IF IsClass(v.self) THEN "class" ELSE "plain"
       [] OTHER -> "other"

\* What o.n(...) does in storage d: called on a class, the plain method gets
\* the instance as its first argument.
OutcomeOf(d, o, n) ==
  LET args == IF IsClass(o) /\ n = "m" THEN <<"Inst">> ELSE << >>
      r == Invoke([State EXCEPT !.dict = d], GetAttr(d, o, n), args)
  IN <<r.kind, r.value>>

\* The members of real targets that had an Expectation at the last teardown.
Mocked ==
  {<<exps[id].mock, exps[id].name>> : id \in
     {j \in SeqToSet(result.saved) : exps[j].name # None /\ ~IsMock(exps[j].mock)}}

\* C6: when teardown raises a call-count error, no trampoline and no attached
\* should_receive, should_call or new_instances is left in the storage of a
\* real target.
C6_NothingInstalledWhenTeardownRaises ==
  result.op = "teardown" /\ RaisedCount =>
    \A o \in RealObjects, k \in Keys : ~IsInstrumentation(dict[o][k])

\* C7: after a teardown the immediate storage of every real target holds the
\* names it held before any mocking.
C7_StorageNamesRestored ==
  result.op = "teardown" =>
    \A o \in RealObjects : NamesOf(dict, o) = NamesOf(PristineDict, o)

\* C8: after a teardown every member that had an Expectation is of the kind it
\* was before any mocking, and calling it gives what it gave then.
C8_BehaviourRestored ==
  result.op = "teardown" =>
    \A t \in Mocked :
      /\ KindOf(dict, t[1], t[2]) = KindOf(PristineDict, t[1], t[2])
      /\ OutcomeOf(dict, t[1], t[2]) = OutcomeOf(PristineDict, t[1], t[2])

\* ------------------------------------------------------ claims on errors
\* The last operation was a call that no Expectation of the member matched
NoMatch(r) ==
  /\ r.op = "call" /\ r.kind = "raise"
  /\ r.value = "MethodSignatureError" /\ r.hits = << >>

\* The trampoline of member n is in the storage of real target o
Intercepted(d, o, n) == InDict(d, o, n) /\ IsInstrumentation(d[o][n])

\* C22: a call to an intercepted member that no Expectation matches raises
\* MethodSignatureError and leaves no trampoline installed for any
\* Expectation of the registry.
C22_NoMatchRemovesInterception ==
  NoMatch(result) =>
    \A id \in Registered :
      ~IsMock(exps[id].mock) => ~Intercepted(dict, exps[id].mock, exps[id].name)

\* The last operation raised a configuration, signature or call-count error
\* from inside Expectation id
RaisedInside(r, id) ==
  /\ r.kind = "raise"
  /\ r.value \in {"FlexmockError", "MethodSignatureError", "MethodCallError"}
  /\ r.exp = id

\* C23: when a configuration, signature or call-count error raised inside an
\* Expectation on a real target reaches the caller, no trampoline is left in
\* the target's storage for the member of that Expectation.
C23_ResetBeforeError ==
  \A id \in Named :
    (RaisedInside(result, id) /\ ~IsMock(exps[id].mock))
      => ~Intercepted(dict, exps[id].mock, exps[id].name)

\* C24: when a teardown has ended, also by the error of a restore that
\* failed, the registry is reset and no trampoline is left on a target whose
\* restore does not fail.
C24_TeardownSurvivesRestoreFailure ==
  result.op = "teardown" =>
    /\ flexmock_objects = << >>
    /\ ordered = << >>
    /\ \A id \in SeqToSet(result.saved) :
         (/\ exps[id].name # None
          /\ ~IsMock(exps[id].mock)
          /\ ~RefusesDelete(exps[id].mock))
           => ~Intercepted(dict, exps[id].mock, exps[id].name)

\* ----------------------------------------------- claims on the original
\* The Expectations declared before e for the same target and member
EarlierThan(e) ==
  {f \in Registered : /\ f < e
                      /\ exps[f].mock = exps[e].mock
                      /\ exps[f].name = exps[e].name}
FirstFor(e) == CHOOSE f \in EarlierThan(e) : \A g \in EarlierThan(e) : f <= g

\* C25: an Expectation declared after another one for the same target and
\* member holds the original the first one captured, which is no trampoline;
\* and a call that a spy declared after another Expectation answers runs the
\* real function exactly once and returns.
C25_OriginalCapturedOnce ==
  /\ \A e \in Registered :
       EarlierThan(e) # {} =>
         /\ exps[e].original = exps[FirstFor(e)].original
         /\ ~IsInstrumentation(exps[e].original)
  /\ (result.op = "call" /\ result.hits # << >> /\ ~RaisedCount) =>
       LET e == result.hits[1] IN
       (exps[e].pass_thru /\ e \in Registered /\ EarlierThan(e) # {}) =>
         /\ result.kind = "return"
         /\ result.real = <<exps[e].name>>

\* The same for the spies on members that are reached as plain methods: on
\* the instance, and member m on the classes.
C25_PlainSpies ==
  (result.op = "call" /\ result.hits # << >> /\ ~RaisedCount) =>
    LET e == result.hits[1] IN
    (/\ exps[e].pass_thru /\ e \in Registered /\ EarlierThan(e) # {}
     /\ ~(IsClass(exps[e].mock) /\ exps[e].method_type \in SPECIAL_METHODS)
     /\ ~IsInstrumentation(exps[e].original)) =>
      /\ result.kind = "return"
      /\ result.real = <<exps[e].name>>

\* ------------------------------------------------ claims on the modifiers
\* The Expectation a builder step was made on
BuiltOn(r) == IF r.kind = "return" THEN r.value ELSE r.exp
Occurrences(q, x) == Cardinality({i \in 1..Len(q) : q[i] = x})
\* The modifier set last on e is still without a number
Unnumbered(e) ==
  /\ e.modified # << >>
  /\ e.expected_calls[e.modified[Len(e.modified)]] = NoCount

\* C26: at_least and at_most are each set at most once on an Expectation, and
\* a call of at_least() or at_most() on an Expectation whose last modifier
\* has no number yet raises FlexmockError and sets nothing.
C26_ModifiersOnce ==
  [][/\ \A id \in 1..Len(exps') :
          /\ Occurrences(exps'[id].modified, AT_LEAST) <= 1
          /\ Occurrences(exps'[id].modified, AT_MOST) <= 1
      /\ (/\ result'.op = "build"
          /\ result'.args \in {<<"at_least">>, <<"at_most">>}
          /\ BuiltOn(result') \in 1..Len(exps)
          /\ Unnumbered(exps[BuiltOn(result')])) =>
            /\ result'.kind = "raise"
            /\ result'.value = "FlexmockError"
            /\ exps'[BuiltOn(result')].modified = exps[BuiltOn(result')].modified
            /\ exps'[BuiltOn(result')].modifier = exps[BuiltOn(result')].modifier
            /\ exps'[BuiltOn(result')].expected_calls
                 = exps[BuiltOn(result')].expected_calls]_vars

\* at_most() has been refused on an Expectation on which at_least() is set
\* without a number
C26_Witness ==
  /\ result.op = "build"
  /\ result.args = <<"at_most">>
  /\ result.kind = "raise"
  /\ result.value = "FlexmockError"
  /\ exps[result.exp].modified = <<AT_LEAST>>
  /\ exps[result.exp].expected_calls[AT_LEAST] = NoCount
C26_WitnessTwice ==
  /\ result.op = "build"
  /\ result.args = <<"at_least">>
  /\ result.kind = "raise"
  /\ exps[result.exp].modified = <<AT_LEAST>>
C26_WitnessBoth ==
  \E id \in 1..Len(exps) : exps[id].modified = <<AT_LEAST, AT_MOST>>

\* ------------------------------------------- claims on attribute stubs
\* The builder methods an attribute stub refuses
RefusedOnStubs ==
  {<<"with_args">>, <<"times">>, <<"at_least">>, <<"at_most">>, <<"ordered">>,
   <<"when">>, <<"replace_with">>, <<"and_raise">>, <<"and_yield">>,
   <<"one_by_one">>}
\* The call-count state of an Expectation
CountState(e) == <<e.times_called, e.expected_calls, e.modifier>>

\* C27: a call of with_args, times, at_least, at_most, ordered, when,
\* replace_with, and_raise, and_yield or one_by_one on an Expectation that
\* stubs a property or a data attribute raises FlexmockError and leaves the
\* call-count state of the Expectation and the ordering queue as they were.
C27_StubsRefuseBuilders ==
  [][(/\ result'.op = "build"
      /\ result'.args \in RefusedOnStubs
      /\ BuiltOn(result') \in 1..Len(exps)
      /\ ~exps[BuiltOn(result')].callable) =>
        /\ result'.kind = "raise"
        /\ result'.value = "FlexmockError"
        /\ CountState(exps'[BuiltOn(result')]) = CountState(exps[BuiltOn(result')])
        /\ ordered' = ordered]_vars

\* ordered() has been refused on the stub of the property while the queue
\* holds the ordered Expectation of m
C27_Witness ==
  /\ result.op = "build"
  /\ result.args = <<"ordered">>
  /\ result.kind = "raise"
  /\ result.value = "FlexmockError"
  /\ ~exps[result.exp].callable
  /\ exps[result.exp].name = "p"
  /\ ordered # << >>
\* times(1) has been refused on the stub of the data attribute that and_return
\* left in the instance
C27_WitnessData ==
  /\ result.op = "build"
  /\ result.args = <<"times">>
  /\ result.kind = "raise"
  /\ ~exps[result.exp].callable
  /\ exps[result.exp].original = Value("a")
\* Every refused builder has been tried on a stub
C27_WitnessEach ==
  /\ result.op = "build"
  /\ result.kind = "raise"
  /\ result.args \in RefusedOnStubs
  /\ ~exps[result.exp].callable

\* ------------------------------------------------ claims on free calls
\* The Expectations of the target that the call of this step matches
MatchingNext ==
  {id \in SeqToSet(ListOf(result'.target)) :
     /\ exps[id].name = result'.name
     /\ _match_args(exps[id], Args(result'.args, {}))}
\* The call of this step goes to an Expectation that is not marked ordered:
\* one matches it, and no matching one waits in the queue.
FreeCall ==
  /\ result'.op = "call"
  /\ \E id \in MatchingNext : ~exps[id].ordered
  /\ \A id \in MatchingNext : \A i \in 1..Len(ordered) : ordered[i] # id

\* C28: a call dispatched to an Expectation that is not marked ordered leaves
\* FlexmockContainer.ordered and FlexmockContainer.last as they were and does
\* not raise CallOrderError, whatever the queue holds.
C28_FreeCallsLeaveQueue ==
  [][FreeCall =>
       /\ result'.hits # << >>
       /\ ~exps[result'.hits[1]].ordered
       /\ ordered' = ordered
       /\ last' = last
       /\ ~(result'.kind = "raise" /\ result'.value = "CallOrderError")]_vars

\* A call has been answered by an Expectation that is not marked ordered
\* while the queue holds an ordered one
C28_Witness ==
  /\ result.op = "call"
  /\ result.kind = "return"
  /\ result.hits # << >>
  /\ ~exps[result.hits[1]].ordered
  /\ ordered # << >>
\* The second call in a row answered by an Expectation that is not marked
\* ordered, with the queue still waiting
C28_WitnessRepeated ==
  /\ C28_Witness
  /\ exps[result.hits[1]].times_called = 2
\* The same after an ordered call has left the queue
C28_WitnessAfter ==
  /\ result.op = "call"
  /\ result.kind = "return"
  /\ result.hits # << >>
  /\ ~exps[result.hits[1]].ordered
  /\ last # NoExp

\* ------------------------------------------- claims on declaration order
\* The Expectations waiting in the queue
Queued == {ordered[i] : i \in 1..Len(ordered)}
\* The one of them declared first with should_receive
FirstDeclared == CHOOSE id \in Queued : \A other \in Queued : id <= other

\* C29: a call that matches exactly one Expectation waiting in the queue
\* raises CallOrderError if and only if another waiting Expectation was
\* declared with should_receive before the matched one.
C29_OrderOfDeclaration ==
  [][(/\ result'.op = "call"
      /\ Cardinality(MatchingNext \cap Queued) = 1) =>
        ((result'.kind = "raise" /\ result'.value = "CallOrderError")
           <=> FirstDeclared \notin MatchingNext)]_vars

\* C29, in the order of the ordered() calls: such a call raises
\* CallOrderError if and only if the matched Expectation is not the one whose
\* ordered() call came first among the waiting ones.
C29_OrderOfOrderedCalls ==
  [][(/\ result'.op = "call"
      /\ Cardinality(MatchingNext \cap Queued) = 1) =>
        ((result'.kind = "raise" /\ result'.value = "CallOrderError")
           <=> Head(ordered) \notin MatchingNext)]_vars

\* The queue holds two Expectations against the order of their declaration
C29_WitnessLate ==
  /\ Len(ordered) = 2
  /\ ordered[1] > ordered[2]

\* ------------------------------------------------ claims on spy Results
\* The call of this step was answered by the spy e, which holds a Result.
SpyAnswered(e) ==
  /\ result'.op = "call"
  /\ result'.hits = <<e>>
  /\ exps[e].pass_thru
  /\ exps[e].declared # << >>
\* The result of the original matches the Result the spy was given first.
FirstResultMatches(e) ==
  LET first == exps[e].declared[1].value IN
  first = OrigResult(exps[e].name) \/ first = "str"
\* What the claim requires of the call the spy e answered
SpyOutcome(e) ==
  /\ result'.real = <<exps[e].name>>
  /\ IF FirstResultMatches(e)
     THEN result'.kind = "return" /\ result'.value = OrigResult(exps[e].name)
     ELSE result'.kind = "raise" /\ result'.value = "MethodSignatureError"

\* C30: a call answered by a spy that holds a Result runs the original once;
\* it returns what the original returned if that matches the Result declared
\* first, and raises MethodSignatureError if not.
C30_SpyChecksFirstResult ==
  [][\A e \in 1..Len(exps) : SpyAnswered(e) => SpyOutcome(e)]_vars

\* The same for the spies that are the first Expectation of their member.
C30_FirstSpyChecksFirstResult ==
  [][\A e \in 1..Len(exps) :
       (SpyAnswered(e) /\ EarlierThan(e) = {}) => SpyOutcome(e)]_vars

\* A spy with a Result has answered a call: the original's result matched
C30_WitnessMatch ==
  /\ result.op = "call" /\ result.kind = "return"
  /\ result.hits # << >>
  /\ exps[result.hits[1]].pass_thru
  /\ exps[result.hits[1]].declared # << >>
  /\ result.value = OrigResult(result.name)
\* ... and the original's result did not match
C30_WitnessMismatch ==
  /\ result.op = "call" /\ result.kind = "raise"
  /\ result.value = "MethodSignatureError"
  /\ result.hits # << >>
  /\ exps[result.hits[1]].pass_thru
  /\ exps[result.hits[1]].declared # << >>
  /\ result.real = <<result.name>>

\* --------------------------------------------- claims on spy exceptions
\* The call of this step was answered by the spy e and its original raised:
\* m was called with more arguments than it takes.
SpyCaught(e) ==
  /\ result'.op = "call"
  /\ result'.hits = <<e>>
  /\ exps[e].pass_thru
  /\ Len(result'.args) = 2
\* Class and message of the Result rv match the TypeError the original raised
MatchesRaised(rv) ==
  /\ rv.raises \in {"TypeError", "Exception"}
  /\ rv.value \in {None, "takes"}
Propagates == result'.kind = "raise" /\ result'.value = "TypeError"

C31_WitnessSecond ==
  /\ result.op = "call" /\ result.kind = "raise"
  /\ Len(result.args) = 2
  /\ result.hits # << >>
  /\ Len(exps[result.hits[1]].declared) = 2
  /\ exps[result.hits[1]].declared[1].raises = None
  /\ exps[result.hits[1]].declared[2] = ReturnValue(None, "TypeError")
\* The original exception came through a spy without Results
C31_WitnessPlain ==
  /\ result.op = "call" /\ result.kind = "raise"
  /\ Len(result.args) = 2
  /\ result.hits # << >>
  /\ exps[result.hits[1]].pass_thru
  /\ exps[result.hits[1]].declared = << >>

\* ------------------------------------------------- claims on the proxies
\* The places of the registry that hold a proxy of target o
EntriesFor(objs, o) == {i \in 1..Len(objs) : objs[i].object = o}
\* The Expectations that tests declared through the proxy at place i: all of
\* its list but the one that stands for the proxy itself
DeclaredAt(objs, i) == {objs[i].exps[k] : k \in 1..Len(objs[i].exps)} \ {objs[i].mock}

\* C32: flexmock(o) for a target that has a proxy in the registry hands back
\* a proxy registered for o and registers nothing; two requests in a row for
\* the same target hand back the same proxy; and all Expectations declared on
\* one target through requested proxies stand in one list of the registry.
C32_OneProxyPerTarget ==
  [][/\ (result'.op = "flexmock" /\ EntriesFor(flexmock_objects, result'.target) # {}) =>
         /\ \E i \in EntriesFor(flexmock_objects, result'.target) :
               flexmock_objects[i].mock = result'.exp
         /\ flexmock_objects' = flexmock_objects
         /\ exps' = exps
     /\ (/\ result'.op = "flexmock" /\ result.op = "flexmock"
         /\ result'.target = result.target) => result'.exp = result.exp
     /\ \A i, j \in 1..Len(flexmock_objects') :
          \A a \in DeclaredAt(flexmock_objects', i), b \in DeclaredAt(flexmock_objects', j) :
            exps'[a].mock = exps'[b].mock => i = j]_vars

\* A request handed back a proxy through which two Expectations were declared
\* after earlier requests
C32_Witness ==
  /\ result.op = "flexmock"
  /\ \E i \in EntriesFor(flexmock_objects, result.target) :
       /\ flexmock_objects[i].mock = result.exp
       /\ Cardinality(DeclaredAt(flexmock_objects, i)) = 2
\* The same where the proxy of the class is the placeholder that the stub of
\* the property of its instance registered
C32_WitnessPlaceholder ==
  /\ result.op = "flexmock"
  /\ result.target = "Base"
  /\ exps[result.exp].name = "p"
  /\ \E i \in EntriesFor(flexmock_objects, "Base") :
       /\ flexmock_objects[i].mock = result.exp
       /\ DeclaredAt(flexmock_objects, i) # {}

\* ------------------------------------------- positional and keyword forms
\* The two ways a test writes one value for the parameter x.
Forms ==
  {Args(<<v>>, {}) : v \in Values} \cup
  {Args(<< >>, {[key |-> "x", val |-> v]}) : v \in Values}

\* A test that declares an Expectation on the member m, cm or sm of the
\* instance or of the class, writes with_args in either form, and calls in
\* either form.
NextNamed ==
  \/ \E o \in {"Inst", "Base"} : exps = << >> /\ Flexmock(o)
  \/ \E p \in Partial, n \in {"m", "cm", "sm"} :
       FirstTest /\ Declared = {} /\ ShouldReceive(p, n)
  \/ \E id \in Building, f \in Forms :
       exps[id].args.none /\ WithArgsNamed(id, f.kargs, f.kwargs)
  \/ \E id \in Building : AndReturn(id, "a")
  \/ \E n \in {"m", "cm", "sm"}, f \in Forms :
       TotalCalled < MaxCalls /\ CallNamed("Inst", n, f.kargs, f.kwargs)
  \/ Teardown
SpecNamed == Init /\ [][NextNamed]_vars

\* The parameter values a written argument list denotes.
Denoted(a) ==
  IF a.kargs = << >> THEN a.kwargs ELSE KwSet(a.kwargs, "x", a.kargs[1])
\* The value c found on the target is the trampoline of Expectation id.
ReachedBy(c, id) ==
  /\ c # Absent
  /\ LET f == IF c.k = "method" THEN c.func ELSE c IN
     /\ f.k = "mock_method"
     /\ f.name = exps[id].name
     /\ ObjIndex(flexmock_objects, f.proxy) # 0
     /\ id \in SeqToSet(flexmock_objects[ObjIndex(flexmock_objects, f.proxy)].exps)
\* The Expectations of the called member whose with_args denotes the values
\* of the call of this step.
SameValues ==
  {id \in Declared :
     /\ ReachedBy(GetAttr(dict, result'.target, result'.name), id)
     /\ ~exps[id].written.none
     /\ Denoted(exps[id].written) = Denoted(result'.args)}

\* C33: a call passing a value positionally and a call passing it by keyword
\* denote the same arguments: each form of call matches an Expectation whose
\* with_args was written in the other form.
C33_EitherFormMatches ==
  [][result'.op = "call" =>
       \A id \in SameValues :
         /\ result'.kind = "return"
         /\ result'.hits = <<id>>]_vars

\* C33 for an instance target: there either form of call matches.
C33_EitherFormMatchesOnInstances ==
  [][result'.op = "call" =>
       \A id \in SameValues :
         ~IsClass(exps[id].mock) =>
           /\ result'.kind = "return"
           /\ result'.hits = <<id>>]_vars

\* A keyword call was answered by an Expectation written positionally.
C33_Witness ==
  /\ result.op = "call"
  /\ result.kind = "return"
  /\ result.args.kargs = << >>
  /\ result.hits # << >>
  /\ ~exps[result.hits[1]].written.none
  /\ exps[result.hits[1]].written.kargs # << >>
\* A keyword call on a member mocked on the class was refused although an
\* Expectation written positionally denotes the same value.
C33_WitnessClass ==
  /\ result.op = "call"
  /\ result.kind = "raise"
  /\ result.args.kargs = << >>
  /\ \E id \in Declared :
       /\ IsClass(exps[id].mock)
       /\ exps[id].name = result.name
       /\ ~exps[id].written.none
       /\ exps[id].written.kargs # << >>
       /\ Denoted(exps[id].written) = Denoted(result.args)

\* --------------------------------------------------- signature validation
\* The argument lists a test writes for r(self, a, b=None, c=None): up to two
\* positional values and any keywords among a, b and c.
Written ==
  {Args(kargs, {[key |-> k, val |-> "a"] : k \in ks}) :
     kargs \in {<< >>, <<"a">>, <<"a", "b">>}, ks \in SUBSET {"a", "b", "c"}}

\* A test that declares an Expectation on r of the instance or of the class,
\* writes with_args, and calls r.
NextSignature ==
  \/ \E o \in {"Inst", "Base"} : exps = << >> /\ Flexmock(o)
  \/ \E p \in Partial : FirstTest /\ Declared = {} /\ ShouldReceive(p, "r")
  \/ \E id \in Building, w \in Written :
       exps[id].args.none /\ WithArgsNamed(id, w.kargs, w.kwargs)
  \/ \E id \in Building : AndReturn(id, "a")
  \/ \E w \in Written : /\ TotalCalled < MaxCalls
                         /\ Len(w.kargs) + Cardinality(w.kwargs) <= 1
                         /\ CallNamed("Inst", "r", w.kargs, w.kwargs)
  \/ Teardown
SpecSignature == Init /\ [][NextSignature]_vars

\* The parameters of the real member after self or cls.
Parameters(e) == Tail(e.argspec.args)
Required(e) ==
  {Parameters(e)[i] : i \in 1..(Len(Parameters(e)) - e.argspec.defaults)}
FilledPositionally(e, w) ==
  {Parameters(e)[i] : i \in 1..Len(w.kargs)}
\* The real member could not be called with the written arguments w: a
\* required parameter is left unbound, or a keyword names a parameter that a
\* positional value fills.
LeavesUnbound(e, w) ==
  Required(e) \ (FilledPositionally(e, w) \cup KwKeys(w.kwargs)) # {}
NamesFilled(e, w) ==
  FilledPositionally(e, w) \cap KwKeys(w.kwargs) # {}
\* The step is with_args on an Expectation of a real member.
WithArgsStep ==
  /\ result'.op = "build"
  /\ Len(result'.args) = 2
  /\ result'.args[1] = "with_args"
  /\ ~exps'[BuiltOn(result')].argspec.none
Refused == result'.kind = "raise" /\ result'.value = "MethodSignatureError"

\* C34: with_args on a real target raises a signature error whenever a
\* required parameter is left unbound and whenever a keyword argument names a
\* parameter already filled positionally.
C34_UncallableRefused ==
  [][WithArgsStep =>
       LET e == exps'[BuiltOn(result')]
           w == result'.args[2]
       IN (LeavesUnbound(e, w) \/ NamesFilled(e, w)) => Refused]_vars

\* What the check does refuse: fewer values than required parameters, and a
\* keyword naming a parameter when every parameter is filled positionally.
C34_CountsRefused ==
  [][WithArgsStep =>
       LET e == exps'[BuiltOn(result')]
           w == result'.args[2]
           given == Len(w.kargs) + Cardinality(KwKeys(w.kwargs))
       IN (\/ given < Cardinality(Required(e))
           \/ Len(w.kargs) = Len(Parameters(e)) /\ NamesFilled(e, w)) => Refused]_vars

\* with_args accepted arguments that leave the required parameter unbound.
C34_WitnessUnbound ==
  /\ result.op = "build" /\ result.kind = "return"
  /\ Len(result.args) = 2
  /\ ~exps[result.value].argspec.none
  /\ LeavesUnbound(exps[result.value], result.args[2])
\* with_args accepted a keyword for a parameter filled positionally.
C34_WitnessOverlap ==
  /\ result.op = "build" /\ result.kind = "return"
  /\ Len(result.args) = 2
  /\ ~exps[result.value].argspec.none
  /\ NamesFilled(exps[result.value], result.args[2])
\* with_args refused arguments that leave the required parameter unbound.
C34_WitnessRefused ==
  /\ result.op = "build" /\ result.kind = "raise"
  /\ Len(result.args) = 2
  /\ result.value = "MethodSignatureError"
  /\ LeavesUnbound(exps[result.exp], result.args[2])

\* ------------------------------------------------ stubs on single instances
\* Tests that stub the property p on instances of Base and of Child, with or
\* without a value, one test after another.
NextInstances ==
  \/ \E o \in Instances : Len(exps) < MaxLife /\ Flexmock(o)
  \/ \E q \in Partial :
       /\ result.op = "flexmock" /\ exps[q].mock = result.target
       /\ ShouldReceive(q, "p")
  \/ \E id \in Building, v \in Values : ~exps[id].callable /\ AndReturn(id, v)
  \/ Teardown
SpecInstances == Init /\ [][NextInstances]_vars

\* The instances a test of the current registry has stubbed p on.
Configured ==
  {o \in Instances : \E id \in Registered : exps[id].mock = o /\ exps[id].name = "p"}
Observes(o) == GetAttr(dict, o, "p")

\* C35: stubbing a property on one instance changes only what that instance
\* observes: every other instance reads the original value while the stub is
\* installed, and after teardown every instance reads the original again.
C35_OnlyStubbedInstancesAffected ==
  \A o \in Instances \ Configured : Observes(o) = Value(OrigResult("p"))

\* C35 for the instances of one class in the first test of a process: one
\* that the test did not stub reads the original value.
C35_OthersKeepOriginal ==
  (\A id \in 1..Len(exps) : id \in Registered) =>
    \A o \in {"Inst", "Twin"} \ Configured : Observes(o) = Value(OrigResult("p"))

\* One instance reads its stub while another instance of its class reads the
\* original.
C35_Witness ==
  /\ Observes("Inst") = Value("a")
  /\ "Inst" \in Configured /\ "Twin" \notin Configured
  /\ Observes("Twin") = Value(OrigResult("p"))
\* After teardown an instance does not read the original.
C35_WitnessAfter ==
  /\ result.op = "teardown" /\ result.kind = "return"
  /\ \E o \in Instances : Observes(o) # Value(OrigResult("p"))
\* In a later test an instance that the test did not stub reads the value a
\* finished test gave it.
C35_WitnessStale ==
  /\ \E id \in 1..Len(exps) : id \notin Registered /\ exps[id].mock = "Inst"
  /\ "Twin" \in Configured /\ "Inst" \notin Configured
  /\ Observes("Inst") = Value("a")

\* ------------------------------------------------------ unittest integration
\* The test body is running: unittest has called startTest and has not yet
\* reported the outcome of the body.
InBody == result.op \in {"startTest", "build", "call"}

\* TestResult.startTest
StartTest ==
  /\ result.op \in {"init", "stopTest"}
  /\ test_result.testsRun < MaxTests
  /\ test_result' = [test_result EXCEPT !.testsRun = @ + 1]
  /\ result' = Outcome("startTest", None, None, << >>, Return(State, None), << >>)
  /\ UNCHANGED <<dict, exps, flexmock_objects, ordered, last, properties, nmods, flag>>

\* The addSuccess that _patch_add_success installs; unittest calls it when
\* the body raised nothing.
AddSuccess ==
  /\ InBody /\ result.kind = "return"
  /\ test_result' = [test_result EXCEPT !._pre_flexmock_success = TRUE]
  /\ result' = Outcome("addSuccess", None, None, << >>, Return(State, None), << >>)
  /\ UNCHANGED <<dict, exps, flexmock_objects, ordered, last, properties, nmods, flag>>

\* TestResult.addFailure, not patched; unittest calls it when the body raised
\* an assertion error, of flexmock or of the test's own.
AddFailure ==
  /\ InBody
  /\ test_result' = [test_result EXCEPT
                       !.reported = Append(@, [test |-> test_result.testsRun,
                                               outcome |-> "failure"])]
  /\ result' = Outcome("addFailure", None, None, << >>, Return(State, None), << >>)
  /\ UNCHANGED <<dict, exps, flexmock_objects, ordered, last, properties, nmods, flag>>

\* A variant of the patched stopTest that reports success only for a body
\* that succeeded.
stopTest_after_success(tr, r) ==
  LET mine == IF r.kind = "return"
              THEN IF tr._pre_flexmock_success
                   THEN <<[test |-> tr.testsRun, outcome |-> "success"]>> ELSE << >>
              ELSE IF tr._pre_flexmock_success
                   THEN <<[test |-> tr.testsRun, outcome |-> "failure"]>>
                   ELSE << >>
  IN [tr EXCEPT !.reported = @ \o mine, !._pre_flexmock_success = FALSE]

\* The stopTest that _patch_stop_test installs, for the TestResult tr and the
\* outcome r of flexmock_teardown(): the saved addSuccess reports success, the
\* except clause reports a failure when the marker of addSuccess is set.
stopTest(tr, r) ==
  LET mine == IF r.kind = "return"
              THEN <<[test |-> tr.testsRun, outcome |-> "success"]>>
              ELSE IF tr._pre_flexmock_success
                   THEN <<[test |-> tr.testsRun, outcome |-> "failure"]>>
                   ELSE << >>
  IN [tr EXCEPT !.reported = @ \o mine, !._pre_flexmock_success = FALSE]

\* unittest calls stopTest after it has reported the outcome of the body.
StopTest ==
  /\ result.op \in {"addSuccess", "addFailure"}
  /\ LET r == flexmock_teardown(State) IN
     /\ Commit(r)
     /\ test_result' = stopTest(test_result, r)
     /\ result' = Outcome("stopTest", None, None, << >>, r, Flatten(flexmock_objects, 1))
  /\ UNCHANGED <<nmods, flag>>

\* Tests run by unittest: each declares Expectations on member m of the
\* fake, some with times(1), and calls m.
NextUnittest ==
  \/ StartTest
  \/ InBody /\ Len(exps) < MaxLife /\ ShouldReceive(FakeProxy, "m")
  \/ \E id \in Building :
       InBody /\ exps[id].expected_calls[EXACTLY] = NoCount /\ Times(id, 1)
  \/ InBody /\ TotalCalled < MaxCalls /\ Call("Fake", "m", << >>)
  \/ AddSuccess
  \/ AddFailure
  \/ StopTest
SpecUnittest == Init /\ [][NextUnittest]_vars

\* What the stopTest of this step reported.
ReportedNow ==
  SubSeq(test_result'.reported, Len(test_result.reported) + 1, Len(test_result'.reported))
Outcomes(q) == [i \in 1..Len(q) |-> q[i].outcome]

\* C36: stopTest reports a test as successful only if the body succeeded and
\* teardown raised nothing; for a test that had failed before teardown it
\* reports nothing further; for a test that had succeeded and whose teardown
\* raises it reports a failure.
C36_StopTestReports ==
  [][result'.op = "stopTest" =>
       LET body == test_result._pre_flexmock_success
           clean == result'.kind = "return"
       IN Outcomes(ReportedNow) =
            IF ~body THEN << >>
            ELSE IF clean THEN <<"success">> ELSE <<"failure">>]_vars

\* What stopTest does report: success whenever teardown raised nothing, a
\* failure when teardown raised after a body that succeeded, nothing when
\* teardown raised after a body that failed.
C36_StopTestReportsByTeardown ==
  [][result'.op = "stopTest" =>
       LET body == test_result._pre_flexmock_success
           clean == result'.kind = "return"
       IN Outcomes(ReportedNow) =
            IF clean THEN <<"success">>
            ELSE IF body THEN <<"failure">> ELSE << >>]_vars

\* A test whose body succeeded and whose teardown raised was reported failed.
C36_Witness ==
  /\ result.op = "stopTest" /\ result.kind = "raise"
  /\ test_result.reported # << >>
  /\ test_result.reported[Len(test_result.reported)] =
       [test |-> test_result.testsRun, outcome |-> "failure"]
  /\ \A i \in 1..(Len(test_result.reported) - 1) :
       test_result.reported[i].test # test_result.testsRun
\* A test whose body failed was reported as a failure and as a success.
C36_WitnessBoth ==
  /\ result.op = "stopTest"
  /\ \E i, j \in 1..Len(test_result.reported) :
       /\ test_result.reported[i] = [test |-> test_result.testsRun, outcome |-> "failure"]
       /\ test_result.reported[j] = [test |-> test_result.testsRun, outcome |-> "success"]

\* -------------------------------------------------- call counts per target
\* The Expectations whose times_called this step increased.
Counted == {id \in 1..Len(exps) : exps'[id].times_called > exps[id].times_called}
\* The Expectations registered for the called member of the called target.
OwnOf(o, n) == {id \in Registered : exps[id].mock = o /\ exps[id].name = n}

\* C37: a call made through a target that has a spy on the called member
\* increments times_called only of Expectations registered for that target,
\* not of an Expectation on the same member of its class or base class.
C37_CountsOnlyOwnTarget ==
  [][(/\ result'.op = "call"
      /\ \E id \in OwnOf(result'.target, result'.name) : exps[id].pass_thru)
       => \A id \in Counted : exps[id].mock = result'.target]_vars

\* C37 for a member that is mocked and not spied, while the trampoline is in
\* the storage of the called target: only an Expectation of the called target
\* is counted.
C37_MockedCountsOnlyOwnTarget ==
  [][(/\ result'.op = "call"
      /\ OwnOf(result'.target, result'.name) # {}
      /\ InDict(dict, result'.target, result'.name)
      /\ \A id \in OwnOf(result'.target, result'.name) : ~exps[id].pass_thru)
       => \A id \in Counted : exps[id].mock = result'.target]_vars

\* A call through a spy of the instance or the derived class was counted by
\* an Expectation of the base class as well.
C37_Witness ==
  /\ result.op = "call" /\ result.kind = "return"
  /\ \E i, j \in 1..Len(result.hits) :
       /\ exps[result.hits[i]].mock = result.target
       /\ exps[result.hits[i]].pass_thru
       /\ exps[result.hits[j]].mock = "Base"
       /\ result.target # "Base"
       /\ exps[result.hits[j]].times_called > 0
\* A call through a spy was counted by the spy alone.
C37_WitnessAlone ==
  /\ result.op = "call" /\ result.kind = "return"
  /\ Len(result.hits) = 1
  /\ exps[result.hits[1]].pass_thru
  /\ exps[result.hits[1]].times_called > 0

\* --------------------------------------------- repeated property stub cycles
\* The last step gave a value to the stub of property p of an instance.
StubbedNow ==
  /\ result.op = "build" /\ result.kind = "return"
  /\ result.args = <<"and_return">>
  /\ result.name = "p"
  /\ result.target \in Instances
\* An earlier test stubbed p on instance o.
StubbedBefore(o) ==
  \E id \in 1..Len(exps) :
    id \notin Registered /\ exps[id].mock = o /\ exps[id].name = "p"

\* C38: in every cycle of stubbing and teardown, the instance whose property
\* was given a value reads that value, the entry and_return wrote in its
\* storage.
C38_EveryCycleReadsStub ==
  StubbedNow => Observes(result.target) = dict[result.target]["p"]

\* C38 for the first cycle of an instance: it reads the value it was given.
C38_FirstCycleReadsStub ==
  StubbedNow /\ ~StubbedBefore(result.target) =>
    Observes(result.target) = dict[result.target]["p"]

\* In the first cycle the instance reads the stubbed value.
C38_Witness ==
  /\ StubbedNow /\ ~StubbedBefore(result.target)
  /\ Observes(result.target) = Value("a")
\* In a second cycle the instance was given the other value and reads the
\* original.
C38_WitnessSecond ==
  /\ StubbedNow /\ StubbedBefore(result.target)
  /\ dict[result.target]["p"] = Value("b")
  /\ Observes(result.target) = Value(OrigResult("p"))

\* ------------------------------------------------ exact count beside bounds
\* times(n) and, after it, at_least().times(a) or at_most().times(b)
ExactAndBounds(e) ==
  /\ e.expected_calls[EXACTLY] # NoCount
  /\ e.expected_calls[AT_LEAST] # NoCount \/ e.expected_calls[AT_MOST] # NoCount

\* C39: for an Expectation with times(n) and bounds added afterwards the exact
\* count n alone governs verification: the first call-count error is raised
\* by the call that goes above n and by no other call, and teardown raises
\* for it after a count other than n and not after n calls, whatever the
\* bounds are.
C39_ExactAloneGoverns ==
  \A id \in Verified :
    LET e == exps[id]
        n == e.expected_calls[EXACTLY]
    IN ExactAndBounds(e) =>
         /\ result.op = "call" /\ ~FailedBefore(id) =>
              (RaisedCountFor(id) <=> e.times_called > n)
         /\ result.op = "teardown" /\ e.times_called = n => result.exp # id
         /\ result.op = "teardown" /\ e.times_called # n /\ ~FailedBefore(id) =>
              /\ RaisedCount
              /\ result.exp = id \/ Precedes(result.exp, id)

\* A call within the exact count passed although it went above the bound of
\* at_most.
C39_Witness ==
  /\ result.op = "call" /\ result.kind = "return"
  /\ \E id \in SeqToSet(result.hits) :
       /\ ExactAndBounds(exps[id])
       /\ exps[id].expected_calls[AT_MOST] # NoCount
       /\ exps[id].times_called > exps[id].expected_calls[AT_MOST]
       /\ exps[id].times_called <= exps[id].expected_calls[EXACTLY]
\* Teardown passed an Expectation called n times, fewer than its bound of
\* at_least.
C39_WitnessTeardown ==
  /\ result.op = "teardown" /\ result.kind = "return"
  /\ \E id \in SeqToSet(result.saved) :
       /\ ExactAndBounds(exps[id])
       /\ exps[id].times_called = exps[id].expected_calls[EXACTLY]
       /\ exps[id].times_called < exps[id].expected_calls[AT_LEAST]

\* ------------------------------------------------- the order check's queue
\* The member called in this step is a trampoline.
Trampolined ==
  LET c == GetAttr(dict, result'.target, result'.name) IN
  /\ c # Absent
  /\ c.k = "mock_method" \/ (c.k = "method" /\ c.func.k = "mock_method")
\* The Expectation the lookup of this step's call selects.
SelectedNow ==
  LET list == ListOf(result'.target) IN
  IF list = << >> THEN NoExp
  ELSE FindFrom(State, list, Len(list), result'.name, Args(result'.args, {}), NoExp)
\* The order check runs in this step: the call selects an Expectation marked
\* ordered.
OrderCheckRuns ==
  /\ result'.op = "call"
  /\ Trampolined
  /\ SelectedNow # NoExp
  /\ exps[SelectedNow].ordered

\* C40: whenever the order check runs, the selected Expectation is in the
\* ordering queue, so the queue is not empty, its head is removed and becomes
\* last, and no IndexError is raised.
C40_OrderCheckOnQueued ==
  [][OrderCheckRuns =>
       /\ InQueue(State, SelectedNow)
       /\ ordered # << >>
       /\ ordered' = Tail(ordered)
       /\ last' = Head(ordered)
       /\ ~(result'.kind = "raise" /\ result'.value = "IndexError")]_vars

\* The order check ran on a queue of one and emptied it.
C40_Witness ==
  /\ result.op = "call" /\ result.kind = "return"
  /\ result.hits # << >>
  /\ exps[result.hits[1]].ordered
  /\ last = result.hits[1]
  /\ ordered = << >>
\* A call that matches only an Expectation that has left the queue finds
\* nothing: no order check runs.
C40_WitnessDequeued ==
  /\ result.op = "call" /\ result.kind = "raise"
  /\ result.value = "MethodSignatureError"
  /\ last # NoExp
  /\ exps[last].name = result.name
  /\ _match_args(exps[last], Args(result.args, {}))

====
